---- MODULE Spec2Model ----
(***************************************************************************)
(* Verification model of natserract/sf: the MCE credential cache           *)
(* (pkg/salesforce/mce/auth.go), the folder hierarchy resolver             *)
(* (pkg/dataretention/services/folder.go) and the bounded-concurrency      *)
(* sync orchestrator (dataretention/services/sync.go).                     *)
(*                                                                         *)
(* The module holds several specifications over one set of variables:     *)
(*   SpecToken    concurrent getAccessToken callers on one token cache     *)
(*   SpecResolve  one call of FolderService.SaveFoldersInOrder             *)
(*   SpecPool     one conc pool (WithMaxGoroutines(n)) and its submitter   *)
(*   Spec         one run of SyncService.SyncAll                           *)
(* Variables a specification does not use keep their initial value.        *)
(***************************************************************************)
EXTENDS Integers, Sequences, FiniteSets, TLC

(***************************************************************************)
(* Bounds of the model (not program constants).                            *)
(***************************************************************************)
NCallers == 2          \* concurrent callers of getAccessToken
MaxTok == 2            \* tokens the auth server issues in one behaviour
MaxTicks == 1          \* clock advances in one behaviour
MaxFaults == 2         \* injected failures in one run of SyncAll
MaxUnits == 11         \* units submitted to the single pool of SpecPool
NThreads == 2          \* concurrent callers of the SyncMetrics methods
MaxMetricOps == 3      \* SyncMetrics method calls in one behaviour
MaxPages == 3          \* pages of data extensions the remote holds for a folder
MaxTwiceFaults == 1    \* injected failures in two calls of SaveFoldersInOrder
MaxRetentionOps == 3   \* calls of DataExtensionService made for one record
NSavers == 2           \* concurrent calls of FolderService.SaveFolder
MaxElapsedUnits == 2   \* backoff intervals that fit into opts.MaxElapsed
MaxDepth == 4          \* nesting of SyncFolder calls followed in a cyclic hierarchy

(***************************************************************************)
(* Program constants.                                                      *)
(***************************************************************************)
SafetyMarginSec == 30        \* auth.go:45  expiresIn - 30*time.Second
DefaultLifetimeSec == 1200   \* auth.go:39  20 * time.Minute
maxRetries == 5              \* folder.go:114
TopLevelPoolMax == 10        \* sync.go:181  WithMaxGoroutines(10)
FolderPoolMax == 10          \* sync.go:216  WithMaxGoroutines(10)
SubfolderPoolMax == 5        \* sync.go:263  WithMaxGoroutines(5)
DataExtPoolMax == 10         \* sync.go:375  WithMaxGoroutines(10)
pageSize == 96               \* export_top_dataextensions.go:328  pageSize := 96

VARIABLES
  \* ---- mce.tokenCache (client.go:39-43) and its callers ----
  accessToken,   \* tokenCache.accessToken; 0 is the empty string
  expiresAt,     \* tokenCache.expiresAt, in seconds
  rlock,         \* callers holding tokenCache.mu for reading
  wlock,         \* caller holding tokenCache.mu for writing, 0 if none
  now,           \* time.Now(), in seconds
  ticks,         \* number of clock advances so far
  nextTok,       \* next token the auth server will issue
  tpc,           \* caller -> position inside getAccessToken
  tresp,         \* caller -> authResp of its Authenticate call
  tret,          \* caller -> [tok, err] returned by its last call
  authCount,     \* caller -> Authenticate calls made by its current call
  lastWrite,     \* <<token, expiry>> stored by the latest cache write
  \* ---- the folders table and one call of SaveFoldersInOrder ----
  store,         \* ids of the rows of table folders
  rFolders,      \* argument folders: the list of folders to save
  rParent,       \* folder id -> ParentID of that folder
  rMap,          \* keys of argument folderMap
  saved,         \* local map saved: folder id -> bool
  attempt,       \* loop variable attempt of the retry loop
  ridx,          \* position of the inner loop in folders (1-based)
  allSaved,      \* local flag allSaved of the current pass
  rpc,           \* "idle", "loop" (inside the loops) or "done" (returned)
  tried,         \* folder id -> SaveFolder calls made for it by this call
  savedPass,     \* folder id -> pass (1-based) in which it was saved, 0 if not
  storeFail,     \* TRUE once a SaveFolder call of this call returned an error
  budget,        \* injected store/remote failures left; -1: unlimited
  \* ---- one run of SyncService.SyncAll ----
  world,         \* the remote hierarchy: what the client calls return
  mpc,           \* position of SyncAll/SyncFolders
  mret,          \* error result of SyncAll: "none" (running), "ok" (nil), "err"
  fetched,       \* result of GetFolders: "none", "ok", "err"
  ti,            \* loop index over topLevelFolders (sync.go:182)
  topUnit,       \* unit of topLevelPool -> "idle", "run", "done", "skipped"
  topErr,        \* topLevelPool has collected an error
  wi,            \* loop index over foldersResp.Entry (sync.go:219)
  w,             \* walk path -> state of that SyncFolder call and its pools
  jobs,          \* walk path -> sync_jobs row created for its batch
  metrics,       \* SyncMetrics counters
  deStore,       \* ids of the rows of table data_extensions
  \* ---- one worker pool (conc pool.New().WithMaxGoroutines(n).WithErrors()) ----
  poolKind,      \* which pool of sync.go: "topLevel", "folder", "subfolder", "dataExt"
  poolUnits,     \* number of units its submit loop goes through
  poolIdx,       \* index of the next unit to submit
  poolRunning,   \* indices of the units submitted and not yet returned
  poolErr,       \* a unit has returned an error
  poolPc,        \* "idle", "open" (submit loop and Wait), "waited" (Wait returned)
  \* ---- concurrent callers of the methods of one SyncMetrics ----
  mu,            \* SyncMetrics.mu: 0 when free, else the caller holding it
  mt,            \* caller -> its current method call (position and locals)
  applied,       \* counter -> sum of the increments written to it so far
  mops,          \* method calls started so far
  \* ---- the rows of table folders, and repeated resolver calls ----
  rows,          \* the rows of table folders (id, parent_id, data, updated_at)
  dbNow,         \* CURRENT_TIMESTAMP of the database
  rcalls,        \* calls of SaveFoldersInOrder made on the same arguments
  rowsOnce,      \* the rows of table folders when the first call returned
  \* ---- one call of DataExtensionService.GetDataExtensions ----
  pgRemote,      \* page index -> number of items the remote returns for it
  pgPage,        \* local page
  pgCalls,       \* the page indices requested from the client, in order
  pgItems,       \* local allDataExtensions: items as <<page, position>>
  pgPc,          \* "idle", "loop", "done"
  pgErr,         \* the call returned an error
  \* ---- the error log of FolderService ----
  nonFK,         \* ids logged with "Failed to save subfolder with non-FK error"
  \* ---- one data extension: its rows and the calls made for it ----
  deRow,         \* its row of table data_extensions: "none", "old" or "new"
  drRow,         \* its row of table data_retention_properties, or NoRow
  xPc,           \* position of the current call of DataExtensionService
  xCfg,          \* de.DataRetentionProperties of the current call, or NoConfig
  xRet,          \* result of the last call: "none", "nil" or "err"
  xOps,          \* calls started so far
  sent,          \* payloads passed to client.UpdateDataRetention, in order
  recStreak,     \* status writes 'failed' applied since the last applied 'succeeded'
  callStreak,    \* UpdateDataRetentionViaAPI calls failed since the last success
  lostWrite,     \* TRUE once a status write was not applied
  \* ---- one call of SaveFoldersBatch or SaveDataExtensionsBatch ----
  bKind,         \* "folders" or "dataExtensions": which of the two is called
  bItems,        \* the argument: ids of the elements of the batch, in order
  bIdx,          \* position of the range loop (1-based)
  bPc,           \* "begin", "loop", "commit" or "done"
  bRet,          \* "none" (running), "nil" or "err"
  bTable,        \* committed rows of the table: id -> "none", "old" or "new"
  bBefore,       \* bTable when the call was made
  txPending,     \* ids written on tx and not yet committed
  \* ---- concurrent calls of FolderService.SaveFolder ----
  fTable,        \* table folders as the list of its rows
  sfArg,         \* caller -> the folder it saves (id, parent, data)
  sfPc,          \* caller -> "start", "failedInsert", "update" or "done"
  sfErr,         \* caller -> SQLSTATE of its last statement, "" if none
  sfRet,         \* caller -> "none" (running), "nil" or "err"
  \* ---- one call of http.Client.Do ----
  hOpts,         \* RequestOptions: whether buildRequest succeeds on them
  hPc,           \* "try" (operation runs), "retry" (Retry decides), "wait" or "done"
  hTries,        \* calls of operation made so far
  hLast,         \* result of the last call of operation
  hFirst,        \* result of the first call of operation
  hElapsed,      \* backoff intervals since Retry started
  hCtx,          \* "live" or "done" (ctx cancelled or past its deadline)
  hRet,          \* what Do returned: kind "none" (running), "resp" or "err"
  \* ---- sfmcn.tokenCache (mcn/client.go:28-32) and one caller ----
  nTok,          \* tokenCache.accessToken; 0 is the empty string
  nExp,          \* tokenCache.expiresAt; 0 is the zero time.Time
  nNow,          \* time.Now(), in minutes; always after the zero time
  nPc,           \* "check", "auth", "store" or "done"
  nResp,         \* AccessToken of the last AuthResponse
  nRet,          \* what the last call returned: token and error flag
  nAuths,        \* calls of Authenticate made so far
  nCalls,        \* calls of getAccessToken that returned a token
  \* ---- one call of FolderService.SaveFolder on full rows of table folders ----
  vTable,        \* table folders: the set of its rows, all columns written by SaveFolder
  vArg,          \* the sforce.Folder passed to SaveFolder
  vPc,           \* "insert", "update" or "done"
  vRet,          \* "none" (running), "nil" or "err"
  vBefore        \* the row of vArg.id when the call was made, NoFolderRow if none

tokVars == <<accessToken, expiresAt, rlock, wlock, now, ticks, nextTok,
             tpc, tresp, tret, authCount, lastWrite>>

resVars == <<store, rFolders, rParent, rMap, saved, attempt, ridx, allSaved,
             rpc, tried, savedPass, storeFail, budget>>

syncVars == <<world, mpc, mret, fetched, ti, topUnit, topErr, wi, w, jobs,
              metrics, deStore>>

poolVars == <<poolKind, poolUnits, poolIdx, poolRunning, poolErr, poolPc>>

metVars == <<mu, mt, applied, mops>>

dbVars == <<rows, dbNow, rcalls, rowsOnce>>

pageVars == <<pgRemote, pgPage, pgCalls, pgItems, pgPc, pgErr>>

logVars == <<nonFK>>

retVars == <<deRow, drRow, xPc, xCfg, xRet, xOps, sent, recStreak,
             callStreak, lostWrite>>

batchVars == <<bKind, bItems, bIdx, bPc, bRet, bTable, bBefore, txPending>>

upsertVars == <<fTable, sfArg, sfPc, sfErr, sfRet>>

httpVars == <<hOpts, hPc, hTries, hLast, hFirst, hElapsed, hCtx, hRet>>

mcnVars == <<nTok, nExp, nNow, nPc, nResp, nRet, nAuths, nCalls>>

fullVars == <<vTable, vArg, vPc, vRet, vBefore>>

vars == <<tokVars, resVars, syncVars, poolVars, metVars, dbVars, pageVars,
          logVars, retVars, batchVars, upsertVars, httpVars, mcnVars, fullVars>>

(***************************************************************************)
(* Folders (sforce.Folder) and the folders table                           *)
(***************************************************************************)
\* Folder ids of the remote hierarchy, and one id that the remote root fetch
\* never returns (a parent outside every batch).
FolderIds == {"A", "B", "C"}
ExternalId == "X"

\* folder.go:37, folder.go:125, sync.go:168  ParentID "" or "0": no parent
IsSentinel(p) == p = "" \/ p = "0"

\* ParentID values of a folder
ParentValues == {"", "0", ExternalId} \cup FolderIds

(***************************************************************************)
(* MCE credential cache: Salesforce.getAccessToken                         *)
(***************************************************************************)
Callers == 1..NCallers

\* expires_in values of the auth server: 0 (field omitted, 20 minutes by
\* default), shorter than the safety margin, and a short lifetime.
ExpiresInValues == {0, 20, 60}

\* Clock advances, in seconds.
TickSteps == {20, 1200}

NoResp == [tok |-> 0, exp |-> 0]
NoRet == [tok |-> 0, err |-> FALSE]

\* The expiry comparison the wrong way round (After instead of Before).
CacheValidReversed(tok, exp, t) == tok # 0 /\ t > exp

\* auth.go:18  accessToken != "" && time.Now().Before(expiresAt)
CacheValid(tok, exp, t) == tok # 0 /\ t < exp

\* auth.go:37-40  expires_in seconds, 20 minutes when the server sends 0
Lifetime(expiresIn) ==
  IF expiresIn = 0 THEN DefaultLifetimeSec ELSE expiresIn

\* An expiry without the safety margin.
ExpiryNoMargin(t, expiresIn) == t + Lifetime(expiresIn)

\* auth.go:45  time.Now().Add(expiresIn - 30*time.Second)
Expiry(t, expiresIn) == t + Lifetime(expiresIn) - SafetyMarginSec

InitCache ==
  /\ accessToken = 0
  /\ expiresAt = 0
  /\ rlock = {}
  /\ wlock = 0
  /\ now = 0
  /\ ticks = 0
  /\ nextTok = 1
  /\ tpc = [c \in Callers |-> "idle"]
  /\ tresp = [c \in Callers |-> NoResp]
  /\ tret = [c \in Callers |-> NoRet]
  /\ authCount = [c \in Callers |-> 0]
  /\ lastWrite = <<0, 0>>

\* Failure injection: a store or remote call may fail for a reason the model
\* does not derive from its state (connection lost, server error) while the
\* budget is not used up.
CanFail == budget # 0
Spend(b) == IF b > 0 THEN b - 1 ELSE b

\* a world in which the remote system returns nothing
EmptyWorld ==
  [entry |-> <<>>,
   parent |-> [f \in FolderIds |-> "0"],
   kids |-> [f \in FolderIds |-> <<>>],
   nde |-> [f \in FolderIds |-> 0]]

NoMetrics == [fs |-> 0, ff |-> 0, ss |-> 0, sf |-> 0, ds |-> 0, df |-> 0]

\* the orchestrator variables while no run of SyncAll is in progress
SyncIdle ==
  /\ world = EmptyWorld
  /\ mpc = "idle"
  /\ mret = "none"
  /\ fetched = "none"
  /\ ti = 1
  /\ topUnit = <<>>
  /\ topErr = FALSE
  /\ wi = 1
  /\ w = <<>>
  /\ jobs = <<>>
  /\ metrics = NoMetrics
  /\ deStore = {}

\* the fields of a folder other than id and parent: as the remote system
\* returns them, and as an older row holds them
FolderData == "v1"
StaleData == "v0"

\* a row of table folders that was there before the run
OldRow(i) == [id |-> i, parent |-> "NULL", data |-> StaleData, updatedAt |-> 0]

\* folder.go:37-38  parent_id of CreateFolderParams: NULL for "" and "0"
ParentColumn(par) == IF IsSentinel(par) THEN "NULL" ELSE par

\* A SaveFolder that inserts a row whether or not the id is already there.
SaveRowInsertOnly(i, par, rs, t) ==
  rs \cup {[id |-> i, parent |-> ParentColumn(par), data |-> FolderData,
            updatedAt |-> t]}

\* folder.go:53-70, queries CreateFolder / UpdateFolder, trigger
\* update_folders_updated_at (001_initial_schema.sql:120-132): the rows after
\* a successful SaveFolder.  A new id is inserted with all its fields; an
\* existing id is a unique violation and becomes an update of the data
\* fields, which leaves parent_id as it is and sets updated_at.
SaveRow(i, par, rs, t) ==
  IF \E r \in rs : r.id = i
  THEN {IF r.id = i THEN [r EXCEPT !.data = FolderData, !.updatedAt = t] ELSE r :
          r \in rs}
  ELSE rs \cup {[id |-> i, parent |-> ParentColumn(par), data |-> FolderData,
                 updatedAt |-> t]}

\* the table and the repeated-call bookkeeping at the start
InitRows ==
  /\ rows = {OldRow(i) : i \in store}
  /\ dbNow = 0
  /\ rcalls = 0
  /\ rowsOnce = {}

\* nothing has been logged yet
LogIdle == nonFK = {}

\* no row of table data_retention_properties for the data extension
NoRow == [status |-> "none"]

\* de.DataRetentionProperties == nil
NoConfig == [length |-> -1]

\* values of de.DataRetentionProperties the remote system returns
RetentionConfigs ==
  {[length |-> 12, unit |-> 6, deleteAtEnd |-> TRUE, rowBased |-> FALSE,
    resetOnImport |-> TRUE],
   [length |-> 3, unit |-> 5, deleteAtEnd |-> FALSE, rowBased |-> TRUE,
    resetOnImport |-> FALSE]}

\* pgtype.Text{Valid: false}: column last_api_update_error is NULL
NoText == [valid |-> FALSE, len |-> 0]

\* export_top_dataextensions.go:409-410  the longest error text stored
MaxErrorText == 1000

\* export_top_dataextensions.go:408-415  the text stored for an API error
\* whose message has n bytes
ErrorText(n) ==
  [valid |-> TRUE, len |-> IF n > MaxErrorText THEN MaxErrorText ELSE n]

\* lengths of the messages of the errors client.UpdateDataRetention returns
ErrorLengths == {40, MaxErrorText, MaxErrorText + 1}

\* data_retention_properties.sql:1-6 and 003_add_retention_update_tracking:
\* the row INSERTed for config c; the tracking columns take their defaults
CreateDataRetentionProperties(c) ==
  [status |-> "pending", retry |-> 0, error |-> NoText,
   length |-> c.length, unit |-> c.unit,
   deleteAtEnd |-> c.deleteAtEnd, rowBased |-> c.rowBased,
   resetOnImport |-> c.resetOnImport]

\* data_retention_properties.sql:12-20  UPDATE of the five config columns
UpdateDataRetentionProperties(r, c) ==
  [r EXCEPT !.length = c.length, !.unit = c.unit,
            !.deleteAtEnd = c.deleteAtEnd, !.rowBased = c.rowBased,
            !.resetOnImport = c.resetOnImport]

\* A status write whose ELSE branch resets the retry counter.
RetryCountResetByPending(st, n) ==
  IF st = "failed" THEN n + 1 ELSE 0

\* data_retention_properties.sql:31-35  CASE of api_update_retry_count
RetryCount(st, n) ==
  IF st = "failed" THEN n + 1
  ELSE IF st = "succeeded" THEN 0
  ELSE n

\* A status write that stores the config columns for every status.
UpdateStatusAlwaysWritesConfig(r, st, e, c) ==
  [r EXCEPT !.status = st,
            !.error = e,
            !.retry = RetryCount(st, r.retry),
            !.length = c.length,
            !.unit = c.unit,
            !.rowBased = c.rowBased]

\* data_retention_properties.sql:26-51  UPDATE ... SET last_api_update_status,
\* last_api_update_error, api_update_retry_count and, for 'succeeded', three
\* config columns
UpdateDataRetentionAPIUpdateStatus(r, st, e, c) ==
  [r EXCEPT !.status = st,
            !.error = e,
            !.retry = RetryCount(st, r.retry),
            !.length = IF st = "succeeded" THEN c.length ELSE @,
            !.unit = IF st = "succeeded" THEN c.unit ELSE @,
            !.rowBased = IF st = "succeeded" THEN c.rowBased ELSE @]

\* concurrent callers of SaveFolder
Savers == 1..NSavers

\* no concurrent SaveFolder call is modelled
UpsertIdle ==
  /\ fTable = <<>>
  /\ sfArg = [t \in Savers |-> [id |-> "A", parent |-> "0", data |-> 0]]
  /\ sfPc = [t \in Savers |-> "done"]
  /\ sfErr = [t \in Savers |-> ""]
  /\ sfRet = [t \in Savers |-> "none"]

\* no call of http.Client.Do is modelled
HttpIdle ==
  /\ hOpts = [buildable |-> TRUE]
  /\ hPc = "done"
  /\ hTries = 0
  /\ hLast = [kind |-> "none", status |-> 0]
  /\ hFirst = [kind |-> "none", status |-> 0]
  /\ hElapsed = 0
  /\ hCtx = "live"
  /\ hRet = [kind |-> "none", status |-> 0]

\* no call of the MCN client is modelled
McnIdle ==
  /\ nTok = 0
  /\ nExp = 0
  /\ nNow = 1
  /\ nPc = "done"
  /\ nResp = 0
  /\ nRet = NoRet
  /\ nAuths = 0
  /\ nCalls = 0

\* no SaveFolder call on full rows is modelled
FullRowIdle ==
  /\ vTable = {}
  /\ vArg = [id |-> "A"]
  /\ vPc = "done"
  /\ vRet = "none"
  /\ vBefore = [id |-> ""]

\* no batch call is modelled
BatchIdle ==
  /\ bKind = "folders"
  /\ bItems = <<>>
  /\ bIdx = 1
  /\ bPc = "done"
  /\ bRet = "none"
  /\ bTable = [i \in FolderIds |-> "none"]
  /\ bBefore = [i \in FolderIds |-> "none"]
  /\ txPending = {}

\* no call of DataExtensionService is modelled
RetIdle ==
  /\ deRow = "none"
  /\ drRow = NoRow
  /\ xPc = "idle"
  /\ xCfg = NoConfig
  /\ xRet = "none"
  /\ xOps = 0
  /\ sent = <<>>
  /\ recStreak = 0
  /\ callStreak = 0
  /\ lostWrite = FALSE

\* the page variables while GetDataExtensions is not run on its own
PageIdle ==
  /\ pgRemote = <<>>
  /\ pgPage = 1
  /\ pgCalls = <<>>
  /\ pgItems = <<>>
  /\ pgPc = "idle"
  /\ pgErr = FALSE

\* callers of the SyncMetrics methods
Threads == 1..NThreads
NoCall == [pc |-> "idle", kind |-> "none", todo |-> <<>>, tmp |-> 0, acc |-> 0]

\* the variables of the metrics callers while there is none
MetIdle ==
  /\ mu = 0
  /\ mt = [t \in Threads |-> NoCall]
  /\ applied = NoMetrics
  /\ mops = 0

\* the pool variables of a specification that does not run the single pool
PoolIdle ==
  /\ poolKind = "topLevel"
  /\ poolUnits = 0
  /\ poolIdx = 1
  /\ poolRunning = {}
  /\ poolErr = FALSE
  /\ poolPc = "idle"

\* the resolver variables while no call of SaveFoldersInOrder is in progress
ResolveIdle ==
  /\ rFolders = <<>>
  /\ rParent = [f \in FolderIds |-> "0"]
  /\ rMap = {}
  /\ saved = [f \in FolderIds |-> FALSE]
  /\ attempt = 0
  /\ ridx = 1
  /\ allSaved = TRUE
  /\ rpc = "idle"
  /\ tried = [f \in FolderIds |-> 0]
  /\ savedPass = [f \in FolderIds |-> 0]
  /\ storeFail = FALSE

InitToken ==
  /\ InitCache
  /\ store = {}
  /\ ResolveIdle
  /\ budget = 0
  /\ SyncIdle
  /\ PoolIdle
  /\ MetIdle
  /\ PageIdle
  /\ InitRows
  /\ LogIdle
  /\ RetIdle
  /\ BatchIdle
  /\ UpsertIdle
  /\ HttpIdle
  /\ McnIdle
  /\ FullRowIdle

\* auth.go:16  s.tokenCache.mu.RLock() at the start of a call
TokRLock(c) ==
  /\ tpc[c] = "idle"
  /\ wlock = 0
  /\ rlock' = rlock \cup {c}
  /\ tpc' = [tpc EXCEPT ![c] = "rlocked"]
  /\ UNCHANGED <<accessToken, expiresAt, wlock, now, ticks, nextTok, tresp,
                 tret, authCount, lastWrite>>
  /\ UNCHANGED <<resVars, syncVars, poolVars, metVars, dbVars, pageVars, logVars, retVars, batchVars, upsertVars, httpVars, mcnVars, fullVars>>

\* auth.go:18-24  cached token still valid: read it, RUnlock, return it
TokHit(c) ==
  /\ tpc[c] = "rlocked"
  /\ CacheValid(accessToken, expiresAt, now)
  /\ rlock' = rlock \ {c}
  /\ tret' = [tret EXCEPT ![c] = [tok |-> accessToken, err |-> FALSE]]
  /\ tpc' = [tpc EXCEPT ![c] = "done"]
  /\ UNCHANGED <<accessToken, expiresAt, wlock, now, ticks, nextTok, tresp,
                 authCount, lastWrite>>
  /\ UNCHANGED <<resVars, syncVars, poolVars, metVars, dbVars, pageVars, logVars, retVars, batchVars, upsertVars, httpVars, mcnVars, fullVars>>

\* A miss that goes on to Authenticate with the read lock still held.
TokMissKeepsLock(c) ==
  /\ tpc[c] = "rlocked"
  /\ ~CacheValid(accessToken, expiresAt, now)
  /\ tpc' = [tpc EXCEPT ![c] = "auth"]
  /\ UNCHANGED <<accessToken, expiresAt, rlock, wlock, now, ticks, nextTok, tresp,
                 tret, authCount, lastWrite>>
  /\ UNCHANGED <<resVars, syncVars, poolVars, metVars, dbVars, pageVars, logVars, retVars, batchVars, upsertVars, httpVars, mcnVars, fullVars>>

\* auth.go:18,25  no token or expired: RUnlock and go on to Authenticate
TokMiss(c) ==
  /\ tpc[c] = "rlocked"
  /\ ~CacheValid(accessToken, expiresAt, now)
  /\ rlock' = rlock \ {c}
  /\ tpc' = [tpc EXCEPT ![c] = "auth"]
  /\ UNCHANGED <<accessToken, expiresAt, wlock, now, ticks, nextTok, tresp,
                 tret, authCount, lastWrite>>
  /\ UNCHANGED <<resVars, syncVars, poolVars, metVars, dbVars, pageVars, logVars, retVars, batchVars, upsertVars, httpVars, mcnVars, fullVars>>

\* auth.go:30, 56-99  Authenticate succeeds: a fresh token and expires_in
TokAuthOk(c) ==
  /\ tpc[c] = "auth"
  /\ nextTok <= MaxTok
  /\ \E e \in ExpiresInValues :
       tresp' = [tresp EXCEPT ![c] = [tok |-> nextTok, exp |-> e]]
  /\ nextTok' = nextTok + 1
  /\ authCount' = [authCount EXCEPT ![c] = @ + 1]
  /\ tpc' = [tpc EXCEPT ![c] = "gotResp"]
  /\ UNCHANGED <<accessToken, expiresAt, rlock, wlock, now, ticks, tret,
                 lastWrite>>
  /\ UNCHANGED <<resVars, syncVars, poolVars, metVars, dbVars, pageVars, logVars, retVars, batchVars, upsertVars, httpVars, mcnVars, fullVars>>

\* A failure path that also clears the cached token.
TokAuthFailDropsCache(c) ==
  /\ tpc[c] = "auth"
  /\ authCount' = [authCount EXCEPT ![c] = @ + 1]
  /\ accessToken' = 0
  /\ tret' = [tret EXCEPT ![c] = [tok |-> 0, err |-> TRUE]]
  /\ tpc' = [tpc EXCEPT ![c] = "done"]
  /\ UNCHANGED <<expiresAt, rlock, wlock, now, ticks, nextTok, tresp, lastWrite>>
  /\ UNCHANGED <<resVars, syncVars, poolVars, metVars, dbVars, pageVars, logVars, retVars, batchVars, upsertVars, httpVars, mcnVars, fullVars>>

\* auth.go:30-34  Authenticate fails: return "", err; the cache is not touched
TokAuthFail(c) ==
  /\ tpc[c] = "auth"
  /\ authCount' = [authCount EXCEPT ![c] = @ + 1]
  /\ tret' = [tret EXCEPT ![c] = [tok |-> 0, err |-> TRUE]]
  /\ tpc' = [tpc EXCEPT ![c] = "done"]
  /\ UNCHANGED <<accessToken, expiresAt, rlock, wlock, now, ticks, nextTok,
                 tresp, lastWrite>>
  /\ UNCHANGED <<resVars, syncVars, poolVars, metVars, dbVars, pageVars, logVars, retVars, batchVars, upsertVars, httpVars, mcnVars, fullVars>>

\* auth.go:42  s.tokenCache.mu.Lock()
TokLock(c) ==
  /\ tpc[c] = "gotResp"
  /\ wlock = 0
  /\ rlock = {}
  /\ wlock' = c
  /\ tpc' = [tpc EXCEPT ![c] = "wlocked"]
  /\ UNCHANGED <<accessToken, expiresAt, rlock, now, ticks, nextTok, tresp,
                 tret, authCount, lastWrite>>
  /\ UNCHANGED <<resVars, syncVars, poolVars, metVars, dbVars, pageVars, logVars, retVars, batchVars, upsertVars, httpVars, mcnVars, fullVars>>

\* A write that stores the token and leaves the old expiry in place.
TokStoreTokenOnly(c) ==
  /\ tpc[c] = "wlocked"
  /\ accessToken' = tresp[c].tok
  /\ lastWrite' = <<tresp[c].tok, Expiry(now, tresp[c].exp)>>
  /\ wlock' = 0
  /\ tret' = [tret EXCEPT ![c] = [tok |-> tresp[c].tok, err |-> FALSE]]
  /\ tpc' = [tpc EXCEPT ![c] = "done"]
  /\ UNCHANGED <<expiresAt, rlock, now, ticks, nextTok, tresp, authCount>>
  /\ UNCHANGED <<resVars, syncVars, poolVars, metVars, dbVars, pageVars, logVars, retVars, batchVars, upsertVars, httpVars, mcnVars, fullVars>>

\* auth.go:43-52  store token and expiry under the write lock, Unlock,
\* return the token of this caller's own response
TokStore(c) ==
  /\ tpc[c] = "wlocked"
  /\ accessToken' = tresp[c].tok
  /\ expiresAt' = Expiry(now, tresp[c].exp)
  /\ lastWrite' = <<tresp[c].tok, Expiry(now, tresp[c].exp)>>
  /\ wlock' = 0
  /\ tret' = [tret EXCEPT ![c] = [tok |-> tresp[c].tok, err |-> FALSE]]
  /\ tpc' = [tpc EXCEPT ![c] = "done"]
  /\ UNCHANGED <<rlock, now, ticks, nextTok, tresp, authCount>>
  /\ UNCHANGED <<resVars, syncVars, poolVars, metVars, dbVars, pageVars, logVars, retVars, batchVars, upsertVars, httpVars, mcnVars, fullVars>>

\* the call has returned; the caller's next getAccessToken call starts with
\* fresh locals
TokAgain(c) ==
  /\ tpc[c] = "done"
  /\ tpc' = [tpc EXCEPT ![c] = "idle"]
  /\ tresp' = [tresp EXCEPT ![c] = NoResp]
  /\ tret' = [tret EXCEPT ![c] = NoRet]
  /\ authCount' = [authCount EXCEPT ![c] = 0]
  /\ UNCHANGED <<accessToken, expiresAt, rlock, wlock, now, ticks, nextTok,
                 lastWrite>>
  /\ UNCHANGED <<resVars, syncVars, poolVars, metVars, dbVars, pageVars, logVars, retVars, batchVars, upsertVars, httpVars, mcnVars, fullVars>>

\* time passes
Tick ==
  /\ ticks < MaxTicks
  /\ \E d \in TickSteps : now' = now + d
  /\ ticks' = ticks + 1
  /\ UNCHANGED <<accessToken, expiresAt, rlock, wlock, nextTok, tpc, tresp,
                 tret, authCount, lastWrite>>
  /\ UNCHANGED <<resVars, syncVars, poolVars, metVars, dbVars, pageVars, logVars, retVars, batchVars, upsertVars, httpVars, mcnVars, fullVars>>

NextToken ==
  \/ \E c \in Callers : TokRLock(c)
  \/ \E c \in Callers : TokHit(c)
  \/ \E c \in Callers : TokMiss(c)
  \/ \E c \in Callers : TokAuthOk(c)
  \/ \E c \in Callers : TokAuthFail(c)
  \/ \E c \in Callers : TokLock(c)
  \/ \E c \in Callers : TokStore(c)
  \/ \E c \in Callers : TokAgain(c)
  \/ Tick

SpecToken == InitToken /\ [][NextToken]_vars

(***************************************************************************)
(* Claims about the credential cache (checked under SpecToken).            *)
(***************************************************************************)

\* C8: while the cache holds a non-empty token whose stored expiry is in the
\* future, every getAccessToken call that checks the cache returns exactly
\* that token, makes no Authenticate call, and leaves the cached token and
\* expiry as they were; this holds for any number of callers holding the
\* read lock at the same time.
C8_ValidCacheIsShared ==
  [][\A c \in Callers :
       (/\ tpc[c] = "rlocked"
        /\ accessToken # 0
        /\ now < expiresAt
        /\ tpc'[c] # "rlocked")
       => (/\ tpc'[c] = "done"
           /\ tret'[c] = [tok |-> accessToken, err |-> FALSE]
           /\ authCount'[c] = 0
           /\ nextTok' = nextTok
           /\ accessToken' = accessToken
           /\ expiresAt' = expiresAt)]_vars

\* C8 witness: caller 1 has returned the cached token without authenticating
\* while caller 2 holds the read lock on the same, still valid, cache.
C8_Witness ==
  /\ tpc[1] = "done"
  /\ authCount[1] = 0
  /\ tret[1].tok = accessToken
  /\ accessToken # 0
  /\ now < expiresAt
  /\ 2 \in rlock

\* C9: a call that finds the cache empty or expired goes on to exactly one
\* Authenticate call; when that succeeds the call stores the new token with
\* expiry = now + lifetime - 30 s (lifetime = expires_in, or 1200 s when the
\* server reports 0) and returns the new token; a call that checks the cache
\* before the stored expiry returns without authenticating.
C9_RefreshStoresTokenAndExpiry ==
  /\ [][\A c \in Callers :
          /\ (/\ tpc[c] = "rlocked"
              /\ (accessToken = 0 \/ now >= expiresAt)
              /\ tpc'[c] # "rlocked")
             => (tpc'[c] = "auth" /\ authCount'[c] = 0)
          /\ (tpc[c] = "auth" /\ tpc'[c] # "auth")
             => authCount'[c] = 1
          /\ (tpc[c] = "wlocked" /\ tpc'[c] # "wlocked")
             => (/\ tresp[c].tok # 0
                 /\ accessToken' = tresp[c].tok
                 /\ expiresAt' = now - 30 +
                      (IF tresp[c].exp = 0 THEN 1200 ELSE tresp[c].exp)
                 /\ tret'[c] = [tok |-> tresp[c].tok, err |-> FALSE]
                 /\ authCount'[c] = 1
                 /\ tpc'[c] = "done")
          /\ (/\ tpc[c] = "rlocked"
              /\ accessToken # 0
              /\ now < expiresAt
              /\ tpc'[c] # "rlocked")
             => (tpc'[c] = "done" /\ authCount'[c] = 0)]_vars
  /\ [](\A c \in Callers : authCount[c] <= 1)

\* C9 witness: a refresh stored a token when the server reported expires_in
\* 0 (20 minutes by default), and a later call, after the clock advanced but
\* before the stored expiry, returned it without authenticating.
C9_Witness ==
  \E c \in Callers :
    /\ tpc[c] = "done"
    /\ authCount[c] = 0
    /\ tret[c].tok = accessToken
    /\ accessToken # 0
    /\ now > 0
    /\ expiresAt = lastWrite[2]
    /\ expiresAt - now > 1100

\* C10: callers that both found the cache empty or expired each hold the
\* response of their own Authenticate call (distinct tokens), each returns
\* the token of its own response after exactly one Authenticate call, and
\* the cache always holds the token together with the expiry of the latest
\* write, never the token of one caller with the expiry of another.
C10_RefreshRaceLastWriterWins ==
  /\ accessToken # 0 => <<accessToken, expiresAt>> = lastWrite
  /\ accessToken = 0 => lastWrite = <<0, 0>>
  /\ \A c \in Callers :
       /\ tpc[c] \in {"gotResp", "wlocked"}
          => (authCount[c] = 1 /\ tresp[c].tok # 0)
       /\ (tpc[c] = "done" /\ authCount[c] > 0 /\ ~tret[c].err)
          => (authCount[c] = 1 /\ tret[c].tok = tresp[c].tok /\ tret[c].tok # 0)
       /\ \A d \in Callers \ {c} :
            tresp[c].tok # 0 => tresp[c].tok # tresp[d].tok

\* C10 witness: caller 1 authenticated first (token 1), caller 2 second
\* (token 2); caller 2 stored first and caller 1 last, so both calls were in
\* flight together, each returned its own token and the cache holds the pair
\* of the last writer.
C10_Witness ==
  /\ tpc[1] = "done"
  /\ tpc[2] = "done"
  /\ tret[1] = [tok |-> 1, err |-> FALSE]
  /\ tret[2] = [tok |-> 2, err |-> FALSE]
  /\ accessToken = 1
  /\ lastWrite[1] = 1

\* C11: when Authenticate fails the call returns an error with an empty
\* token after exactly one Authenticate call, and no step of a call that
\* has not received a response (start, cache check, failed Authenticate)
\* changes the cached token or expiry.
C11_AuthFailureLeavesCache ==
  /\ [][\A c \in Callers :
          /\ (tpc[c] = "auth" /\ tpc'[c] # "auth" /\ tresp'[c] = NoResp)
             => (/\ tpc'[c] = "done"
                 /\ tret'[c] = [tok |-> 0, err |-> TRUE]
                 /\ authCount[c] = 0
                 /\ authCount'[c] = 1)
          /\ (tpc[c] \in {"idle", "rlocked", "auth"} /\ tpc'[c] # tpc[c])
             => (accessToken' = accessToken /\ expiresAt' = expiresAt)]_vars
  /\ [](\A c \in Callers :
          tret[c].err => (tret[c].tok = 0 /\ authCount[c] = 1 /\ tresp[c] = NoResp))

\* C11 witness: a call has failed while the cache holds the token and expiry
\* another call stored
C11_Witness ==
  \E c \in Callers :
    /\ tpc[c] = "done"
    /\ tret[c] = [tok |-> 0, err |-> TRUE]
    /\ authCount[c] = 1
    /\ accessToken # 0
    /\ <<accessToken, expiresAt>> = lastWrite

(***************************************************************************)
(* FolderService.SaveFolder and FolderService.SaveFoldersInOrder           *)
(***************************************************************************)
Range(q) == {q[i] : i \in 1..Len(q)}

\* lists without repetition over S (folder ids are unique)
InjSeqs(S) ==
  UNION {{q \in [1..n -> S] : \A i, j \in 1..n : i # j => q[i] # q[j]} :
         n \in 0..Cardinality(S)}

\* folder.go:34-86  results SaveFolder can return for folder id with ParentID
\* par when the folders table holds the rows st: an existing id takes the
\* update path (unique violation, then UpdateFolder); a new id with a
\* non-sentinel parent that has no row violates fk_parent_folder
\* (001_initial_schema.sql:23); any statement can fail for another reason.
SaveFolderOutcomes(id, par, st) ==
  {"other"} \cup
  (IF id \in st THEN {"ok"}
   ELSE IF ~IsSentinel(par) /\ par \notin st THEN {"fk"}
   ELSE {"ok"})

\* The parent check dropped: no folder is ever deferred.
MustDeferNever(f) == FALSE

\* A check that defers only on a parent that is itself in the list.
MustDeferListedOnly(f) ==
  /\ ~IsSentinel(rParent[f])
  /\ rParent[f] \in Range(rFolders)
  /\ ~saved[rParent[f]]

\* folder.go:125-130  parent is in folderMap and not yet marked saved
MustDefer(f) ==
  /\ ~IsSentinel(rParent[f])
  /\ rParent[f] \in rMap
  /\ ~saved[rParent[f]]

\* the folder the inner loop is at
Cur == rFolders[ridx]

InLoop == rpc = "loop" /\ ridx <= Len(rFolders)

\* folder.go:111-117  entry of SaveFoldersInOrder(folders, folderMap)
ResolveStart(folders, parent, keys) ==
  /\ rFolders' = folders
  /\ rParent' = parent
  /\ rMap' = keys
  /\ saved' = [f \in FolderIds |-> FALSE]
  /\ attempt' = 0
  /\ ridx' = 1
  /\ allSaved' = TRUE
  /\ rpc' = "loop"
  /\ tried' = [f \in FolderIds |-> 0]
  /\ savedPass' = [f \in FolderIds |-> 0]
  /\ storeFail' = FALSE

InitResolve ==
  /\ InitCache
  /\ rFolders \in InjSeqs(FolderIds)
  /\ rMap \in {Range(rFolders), FolderIds}
  /\ rParent \in [FolderIds -> ParentValues]
  /\ \A f \in FolderIds \ rMap : rParent[f] = "0"
  /\ store \in {{}, {ExternalId} \cup (FolderIds \ Range(rFolders))}
  /\ saved = [f \in FolderIds |-> FALSE]
  /\ attempt = 0
  /\ ridx = 1
  /\ allSaved = TRUE
  /\ rpc = "loop"
  /\ tried = [f \in FolderIds |-> 0]
  /\ savedPass = [f \in FolderIds |-> 0]
  /\ storeFail = FALSE
  /\ budget = -1
  /\ SyncIdle
  /\ PoolIdle
  /\ MetIdle
  /\ PageIdle
  /\ InitRows
  /\ LogIdle
  /\ RetIdle
  /\ BatchIdle
  /\ UpsertIdle
  /\ HttpIdle
  /\ McnIdle
  /\ FullRowIdle

\* folder.go:120-122  already saved in an earlier pass: continue
ResSkip ==
  /\ InLoop
  /\ saved[Cur]
  /\ ridx' = ridx + 1
  /\ UNCHANGED <<store, rFolders, rParent, rMap, saved, attempt, allSaved,
                 rpc, tried, savedPass, storeFail>>
  /\ UNCHANGED <<budget, tokVars, syncVars, poolVars, metVars, dbVars, pageVars, logVars, retVars, batchVars, upsertVars, httpVars, mcnVars, fullVars>>

\* folder.go:125-130  parent known and not yet saved: allSaved = false, continue
ResDefer ==
  /\ InLoop
  /\ ~saved[Cur]
  /\ MustDefer(Cur)
  /\ allSaved' = FALSE
  /\ ridx' = ridx + 1
  /\ UNCHANGED <<store, rFolders, rParent, rMap, saved, attempt, rpc, tried,
                 savedPass, storeFail>>
  /\ UNCHANGED <<budget, tokVars, syncVars, poolVars, metVars, dbVars, pageVars, logVars, retVars, batchVars, upsertVars, httpVars, mcnVars, fullVars>>

\* folder.go:136,158  SaveFolder succeeds: saved[folder.ID] = true
ResSaveOk ==
  /\ InLoop
  /\ ~saved[Cur]
  /\ ~MustDefer(Cur)
  /\ "ok" \in SaveFolderOutcomes(Cur, rParent[Cur], store)
  /\ store' = store \cup {Cur}
  /\ rows' = SaveRow(Cur, rParent[Cur], rows, dbNow)
  /\ saved' = [saved EXCEPT ![Cur] = TRUE]
  /\ tried' = [tried EXCEPT ![Cur] = @ + 1]
  /\ savedPass' = [savedPass EXCEPT ![Cur] = attempt + 1]
  /\ ridx' = ridx + 1
  /\ UNCHANGED <<rFolders, rParent, rMap, attempt, allSaved, rpc, storeFail>>
  /\ UNCHANGED <<budget, tokVars, syncVars, poolVars, metVars, dbNow, rcalls, rowsOnce, pageVars, logVars, retVars, batchVars, upsertVars, httpVars, mcnVars, fullVars>>

\* A foreign key failure that leaves the flag allSaved as it is.
ResSaveFKKeepsFlag ==
  /\ InLoop
  /\ ~saved[Cur]
  /\ ~MustDefer(Cur)
  /\ "fk" \in SaveFolderOutcomes(Cur, rParent[Cur], store)
  /\ tried' = [tried EXCEPT ![Cur] = @ + 1]
  /\ storeFail' = TRUE
  /\ ridx' = ridx + 1
  /\ UNCHANGED <<store, rFolders, rParent, rMap, saved, attempt, rpc, savedPass,
                 allSaved>>
  /\ UNCHANGED <<budget, tokVars, syncVars, poolVars, metVars, dbVars, pageVars, logVars, retVars, batchVars, upsertVars, httpVars, mcnVars, fullVars>>

\* folder.go:136-147  SaveFolder fails with a foreign key violation:
\* allSaved = false, continue
ResSaveFK ==
  /\ InLoop
  /\ ~saved[Cur]
  /\ ~MustDefer(Cur)
  /\ "fk" \in SaveFolderOutcomes(Cur, rParent[Cur], store)
  /\ allSaved' = FALSE
  /\ tried' = [tried EXCEPT ![Cur] = @ + 1]
  /\ storeFail' = TRUE
  /\ ridx' = ridx + 1
  /\ UNCHANGED <<store, rFolders, rParent, rMap, saved, attempt, rpc, savedPass>>
  /\ UNCHANGED <<budget, tokVars, syncVars, poolVars, metVars, dbVars, pageVars, logVars, retVars, batchVars, upsertVars, httpVars, mcnVars, fullVars>>

\* folder.go:136,148-155  SaveFolder fails with another error:
\* allSaved = false, continue
ResSaveOther ==
  /\ InLoop
  /\ ~saved[Cur]
  /\ ~MustDefer(Cur)
  /\ "other" \in SaveFolderOutcomes(Cur, rParent[Cur], store)
  /\ CanFail
  /\ budget' = Spend(budget)
  /\ allSaved' = FALSE
  /\ tried' = [tried EXCEPT ![Cur] = @ + 1]
  /\ storeFail' = TRUE
  /\ nonFK' = nonFK \cup {Cur}
  /\ ridx' = ridx + 1
  /\ UNCHANGED <<store, rFolders, rParent, rMap, saved, attempt, rpc, savedPass>>
  /\ UNCHANGED <<tokVars, syncVars, poolVars, metVars, dbVars, pageVars, retVars,
                 batchVars, upsertVars, httpVars, mcnVars, fullVars>>

\* folder.go:164-168  end of a pass with allSaved: return nil
ResReturnAllSaved ==
  /\ rpc = "loop"
  /\ ridx = Len(rFolders) + 1
  /\ allSaved
  /\ rpc' = "done"
  /\ UNCHANGED <<store, rFolders, rParent, rMap, saved, attempt, ridx,
                 allSaved, tried, savedPass, storeFail>>
  /\ UNCHANGED <<budget, tokVars, syncVars, poolVars, metVars, dbVars, pageVars, logVars, retVars, batchVars, upsertVars, httpVars, mcnVars, fullVars>>

\* folder.go:117,170-176  end of a pass, not all saved, passes left: next pass
ResNextPass ==
  /\ rpc = "loop"
  /\ ridx = Len(rFolders) + 1
  /\ ~allSaved
  /\ attempt + 1 < maxRetries
  /\ attempt' = attempt + 1
  /\ ridx' = 1
  /\ allSaved' = TRUE
  /\ UNCHANGED <<store, rFolders, rParent, rMap, saved, rpc, tried,
                 savedPass, storeFail>>
  /\ UNCHANGED <<budget, tokVars, syncVars, poolVars, metVars, dbVars, pageVars, logVars, retVars, batchVars, upsertVars, httpVars, mcnVars, fullVars>>

\* A resolver that reports the unsaved folders as an error.
ResReturnUnsavedFails ==
  /\ rpc = "loop"
  /\ ridx = Len(rFolders) + 1
  /\ ~allSaved
  /\ attempt + 1 >= maxRetries
  /\ attempt' = attempt + 1
  /\ rpc' = "failed"
  /\ UNCHANGED <<store, rFolders, rParent, rMap, saved, ridx, allSaved,
                 tried, savedPass, storeFail>>
  /\ UNCHANGED <<budget, tokVars, syncVars, poolVars, metVars, dbVars, pageVars, logVars, retVars, batchVars, upsertVars, httpVars, mcnVars, fullVars>>

\* folder.go:117,178-189  the last pass ended with folders unsaved: log the
\* unsaved folders and return nil
ResReturnUnsaved ==
  /\ rpc = "loop"
  /\ ridx = Len(rFolders) + 1
  /\ ~allSaved
  /\ attempt + 1 >= maxRetries
  /\ attempt' = attempt + 1
  /\ rpc' = "done"
  /\ UNCHANGED <<store, rFolders, rParent, rMap, saved, ridx, allSaved,
                 tried, savedPass, storeFail>>
  /\ UNCHANGED <<budget, tokVars, syncVars, poolVars, metVars, dbVars, pageVars, logVars, retVars, batchVars, upsertVars, httpVars, mcnVars, fullVars>>

ResolveStep ==
  \/ ResSkip
  \/ ResDefer
  \/ ResSaveOk
  \/ ResSaveFK
  \/ ResSaveOther
  \/ ResReturnAllSaved
  \/ ResNextPass
  \/ ResReturnUnsaved

NextResolve == ResolveStep

SpecResolve == InitResolve /\ [][NextResolve]_vars

\* the call is sequential code that keeps running until it returns;
\* it is started on an empty folders table
InitResolveLive == InitResolve /\ store = {}

SpecResolveLive ==
  InitResolveLive /\ [][NextResolve]_vars /\ WF_vars(NextResolve)

(***************************************************************************)
(* Claims about SaveFoldersInOrder (checked under SpecResolve).            *)
(***************************************************************************)

\* C1: a folder whose parent identifier is a key of folderMap is given no
\* persistence attempt, and is not marked saved, before that parent has
\* been marked saved in the same call: in every state, a folder that has
\* been attempted or saved has a sentinel parent ("" or "0"), or a parent
\* absent from folderMap, or a parent already marked saved.
C1_ParentSavedBeforeChild ==
  \A f \in FolderIds :
    (saved[f] \/ tried[f] > 0)
    => \/ rParent[f] = ""
       \/ rParent[f] = "0"
       \/ rParent[f] \notin rMap
       \/ saved[rParent[f]]

\* C1 witness: a folder listed before its parent was deferred in pass 1 and
\* saved in a later pass, after its parent (a key of folderMap) was saved.
C1_Witness ==
  \E i, j \in 1..Len(rFolders) :
    /\ i < j
    /\ rParent[rFolders[i]] = rFolders[j]
    /\ rFolders[j] \in rMap
    /\ saved[rFolders[j]]
    /\ saved[rFolders[i]]
    /\ savedPass[rFolders[i]] > savedPass[rFolders[j]]

\* C2: when the call has returned and every SaveFolder call succeeded, every
\* folder of the list whose ancestor chain (following ParentID through
\* folderMap) reaches a sentinel parent or a parent absent from folderMap
\* within at most 5 folders is saved, and a folder at chain depth d was
\* saved no later than pass d.
C2_ResolvableChainsPersisted ==
  LET RECURSIVE Depth(_, _)
      Depth(f, fuel) ==
        IF IsSentinel(rParent[f]) \/ rParent[f] \notin rMap THEN 1
        ELSE IF fuel = 0 THEN 99
        ELSE 1 + Depth(rParent[f], fuel - 1)
      ChainDepth(f) == Depth(f, Cardinality(FolderIds))
  IN (rpc = "done" /\ ~storeFail)
     => \A i \in 1..Len(rFolders) :
          ChainDepth(rFolders[i]) <= 5
          => (saved[rFolders[i]]
              /\ savedPass[rFolders[i]] <= ChainDepth(rFolders[i]))

(***************************************************************************)
(* SyncService.SyncAll: the bounded-concurrency orchestrator               *)
(***************************************************************************)
\* The remote hierarchies the model runs SyncAll against.  entry is the
\* result of GetFolders, parent the ParentID of each folder, kids[f] the
\* result of GetSubFolders(f), nde[f] the number of data extensions
\* GetDataExtensions returns for f.
Worlds ==
  { \* two top-level folders, one of them with two data extensions
    [entry |-> <<"A", "B">>,
     parent |-> [f \in FolderIds |-> IF f = "B" THEN "" ELSE "0"],
     kids |-> [f \in FolderIds |-> <<>>],
     nde |-> [f \in FolderIds |-> IF f = "A" THEN 2 ELSE 0]],
    \* a top-level folder with a data extension and two children, one of
    \* them with a data extension
    [entry |-> <<"A">>,
     parent |-> [f \in FolderIds |-> IF f = "A" THEN "0" ELSE "A"],
     kids |-> [f \in FolderIds |-> IF f = "A" THEN <<"B", "C">> ELSE <<>>],
     nde |-> [f \in FolderIds |-> IF f \in {"A", "C"} THEN 1 ELSE 0]],
    \* a chain A > B > C; the root fetch also returns B, the child of A
    [entry |-> <<"A", "B">>,
     parent |-> [f \in FolderIds |->
                   IF f = "A" THEN "0" ELSE IF f = "B" THEN "A" ELSE "B"],
     kids |-> [f \in FolderIds |->
                 IF f = "A" THEN <<"B">> ELSE IF f = "B" THEN <<"C">> ELSE <<>>],
     nde |-> [f \in FolderIds |-> IF f = "C" THEN 1 ELSE 0]],
    \* no top-level folder: B is the child of C, and the parent of C is a
    \* folder the root fetch does not return
    [entry |-> <<"B", "C">>,
     parent |-> [f \in FolderIds |->
                   IF f = "B" THEN "C" ELSE IF f = "C" THEN ExternalId ELSE "0"],
     kids |-> [f \in FolderIds |-> IF f = "C" THEN <<"B">> ELSE <<>>],
     nde |-> [f \in FolderIds |-> 0]] }

\* sync.go:166-173  the partition of foldersResp.Entry and the keys of folderMap
TopLevelFolders == SelectSeq(world.entry, LAMBDA f : IsSentinel(world.parent[f]))
Subfolders == SelectSeq(world.entry, LAMBDA f : ~IsSentinel(world.parent[f]))
FolderMapKeys == Range(world.entry)

\* A pool without a goroutine limit.
CanSubmitUnbounded(inFlight, max) == TRUE

\* conc pool: Go blocks the submitter while max goroutines are busy
CanSubmit(inFlight, max) == inFlight < max

\* A pool whose Wait returns without waiting for its goroutines.
AllFinishedNoWait(running) == TRUE

\* conc pool: Wait returns once every submitted unit has returned
AllFinished(running) == running = {}

\* A pool that stops starting units once one unit has failed.
RunsAfterErrorNever(err) == ~err

\* conc ErrorPool without WithContext or WithFirstError: a unit is started
\* whatever the results of the units before it
RunsAfterError(err) == TRUE

InitSync ==
  /\ InitCache
  /\ ResolveIdle
  /\ store \in {{}, {ExternalId}}
  /\ budget = MaxFaults
  /\ world \in Worlds
  /\ mpc = "fetch"
  /\ mret = "none"
  /\ fetched = "none"
  /\ ti = 1
  /\ topUnit = <<>>
  /\ topErr = FALSE
  /\ wi = 1
  /\ w = <<>>
  /\ jobs = <<>>
  /\ metrics = NoMetrics
  /\ deStore = {}
  /\ PoolIdle
  /\ MetIdle
  /\ PageIdle
  /\ InitRows
  /\ LogIdle
  /\ RetIdle
  /\ BatchIdle
  /\ UpsertIdle
  /\ HttpIdle
  /\ McnIdle
  /\ FullRowIdle

resLocals == <<rFolders, rParent, rMap, saved, attempt, ridx, allSaved, rpc,
               tried, savedPass, storeFail>>

\* ---- SyncFolders: fetch and step 1 (sync.go:149-203) ----

\* sync.go:152-177  GetFolders succeeds; partition the folders
SyncFetchOk ==
  /\ mpc = "fetch"
  /\ fetched' = "ok"
  /\ mpc' = "topPool"
  /\ ti' = 1
  /\ topUnit' = [i \in 1..Len(TopLevelFolders) |-> "idle"]
  /\ UNCHANGED <<world, mret, topErr, wi, w, jobs, metrics, deStore>>
  /\ UNCHANGED <<store, budget, resLocals, tokVars, poolVars, metVars, dbVars, pageVars, logVars, retVars, batchVars, upsertVars, httpVars, mcnVars, fullVars>>

\* sync.go:152-155, 127-129  GetFolders fails: SyncAll returns metrics and error
SyncFetchFail ==
  /\ mpc = "fetch"
  /\ CanFail
  /\ budget' = Spend(budget)
  /\ fetched' = "err"
  /\ mpc' = "done"
  /\ mret' = "err"
  /\ UNCHANGED <<world, ti, topUnit, topErr, wi, w, jobs, metrics, deStore>>
  /\ UNCHANGED <<store, resLocals, tokVars, poolVars, metVars, dbVars, pageVars, logVars, retVars, batchVars, upsertVars, httpVars, mcnVars, fullVars>>

TopRunning == {i \in DOMAIN topUnit : topUnit[i] = "run"}

\* sync.go:182-199  topLevelPool.Go for the next top-level folder
TopSubmit ==
  /\ mpc = "topPool"
  /\ ti <= Len(TopLevelFolders)
  /\ CanSubmit(Cardinality(TopRunning), TopLevelPoolMax)
  /\ topUnit' = [topUnit EXCEPT ![ti] =
                   IF RunsAfterError(topErr) THEN "run" ELSE "skipped"]
  /\ ti' = ti + 1
  /\ UNCHANGED <<world, mpc, mret, fetched, topErr, wi, w, jobs, metrics, deStore>>
  /\ UNCHANGED <<store, budget, resLocals, tokVars, poolVars, metVars, dbVars, pageVars, logVars, retVars, batchVars, upsertVars, httpVars, mcnVars, fullVars>>

\* sync.go:185,193-197  a top-level unit: SaveFolder succeeds, AddFolderSuccess
TopSaveOk(i) ==
  /\ i \in TopRunning
  /\ "ok" \in SaveFolderOutcomes(TopLevelFolders[i],
                                 world.parent[TopLevelFolders[i]], store)
  /\ store' = store \cup {TopLevelFolders[i]}
  /\ rows' = SaveRow(TopLevelFolders[i], world.parent[TopLevelFolders[i]], rows, dbNow)
  /\ metrics' = [metrics EXCEPT !.fs = @ + 1]
  /\ topUnit' = [topUnit EXCEPT ![i] = "done"]
  /\ UNCHANGED <<world, mpc, mret, fetched, ti, topErr, wi, w, jobs, deStore>>
  /\ UNCHANGED <<budget, resLocals, tokVars, poolVars, metVars, dbNow, rcalls, rowsOnce, pageVars, logVars, retVars, batchVars, upsertVars, httpVars, mcnVars, fullVars>>

\* sync.go:185-192  a top-level unit: SaveFolder fails, AddFolderFailure,
\* the unit returns the error to the pool
TopSaveFail(i) ==
  /\ i \in TopRunning
  /\ CanFail
  /\ budget' = Spend(budget)
  /\ metrics' = [metrics EXCEPT !.ff = @ + 1]
  /\ topErr' = TRUE
  /\ topUnit' = [topUnit EXCEPT ![i] = "done"]
  /\ UNCHANGED <<world, mpc, mret, fetched, ti, wi, w, jobs, deStore>>
  /\ UNCHANGED <<store, resLocals, tokVars, poolVars, metVars, dbVars, pageVars, logVars, retVars, batchVars, upsertVars, httpVars, mcnVars, fullVars>>

\* A Wait whose error result is dropped.
TopPoolErrIgnored == FALSE

\* sync.go:201  err of topLevelPool.Wait(): non-nil iff a unit returned an error
TopPoolErr == topErr

TopWaitReturns ==
  /\ mpc = "topPool"
  /\ ti > Len(TopLevelFolders)
  /\ AllFinished(TopRunning)

\* sync.go:201-203, 127-129  topLevelPool.Wait returns an error: SyncFolders
\* and SyncAll return it
TopWaitErr ==
  /\ TopWaitReturns
  /\ TopPoolErr
  /\ mpc' = "done"
  /\ mret' = "err"
  /\ UNCHANGED <<world, fetched, ti, topUnit, topErr, wi, w, jobs, metrics, deStore>>
  /\ UNCHANGED <<store, budget, resLocals, tokVars, poolVars, metVars, dbVars, pageVars, logVars, retVars, batchVars, upsertVars, httpVars, mcnVars, fullVars>>

\* sync.go:201-208  Wait returns nil and there are subfolders: step 2 calls
\* SaveFoldersInOrder(subfolders, folderMap)
TopWaitToResolve ==
  /\ TopWaitReturns
  /\ ~TopPoolErr
  /\ Len(Subfolders) > 0
  /\ ResolveStart(Subfolders, world.parent, FolderMapKeys)
  /\ mpc' = "resolve"
  /\ UNCHANGED <<world, mret, fetched, ti, topUnit, topErr, wi, w, jobs, metrics, deStore>>
  /\ UNCHANGED <<store, budget, tokVars, poolVars, metVars, dbVars, pageVars, logVars, retVars, batchVars, upsertVars, httpVars, mcnVars, fullVars>>

\* sync.go:201-206, 214-216  Wait returns nil and there are no subfolders
TopWaitToWalk ==
  /\ TopWaitReturns
  /\ ~TopPoolErr
  /\ Len(Subfolders) = 0
  /\ mpc' = "walkPool"
  /\ wi' = 1
  /\ UNCHANGED <<world, mret, fetched, ti, topUnit, topErr, w, jobs, metrics, deStore>>
  /\ UNCHANGED <<store, budget, resLocals, tokVars, poolVars, metVars, dbVars, pageVars, logVars, retVars, batchVars, upsertVars, httpVars, mcnVars, fullVars>>

\* sync.go:208-216  SaveFoldersInOrder has returned (always nil): step 3
ResolveReturn ==
  /\ mpc = "resolve"
  /\ rpc = "done"
  /\ mpc' = "walkPool"
  /\ wi' = 1
  /\ UNCHANGED <<world, mret, fetched, ti, topUnit, topErr, w, jobs, metrics, deStore>>
  /\ UNCHANGED <<store, budget, resLocals, tokVars, poolVars, metVars, dbVars, pageVars, logVars, retVars, batchVars, upsertVars, httpVars, mcnVars, fullVars>>

\* ---- SyncFolders step 3 and SyncFolder (sync.go:214-318) ----

\* A SyncFolder call is identified by its walk path: <<r>> for the call of
\* step 3 on root-fetched folder r, Append(p, c) for the unit of child c in
\* the subfolderPool of the call at path p.
\*   pc      position: "unitSave" (child unit before SyncFolder), "save",
\*           "fetchSub", "subPool", "deFetch", "jobCreate", "dePool",
\*           "jobProgress", "jobComplete", "done"; "skipped" for a unit
\*           its pool never started
\*   i       loop index of the submit loop the call is in
\*   kidsOk  GetSubFolders succeeded
\*   de      result of GetDataExtensions: "none", "ok", "err"
\*   n       len(dataExtensions)
\*   job     syncJobID != uuid.Nil
\*   leaf    the units of dataExtPool with saveResults and retentionResults
\*   ret     result of SyncFolder: "none", "ok" (nil), "err"
\*   uret    result of the pool unit that made the call
NewWalk(pc0) ==
  [pc |-> pc0, i |-> 1, kidsOk |-> FALSE, de |-> "none", n |-> 0,
   job |-> FALSE, leaf |-> <<>>, ret |-> "none", uret |-> "none"]

Walks == DOMAIN w
FolderOf(p) == p[Len(p)]
KidsOf(p) == IF w[p].kidsOk THEN world.kids[FolderOf(p)] ELSE <<>>
RootWalks == {q \in Walks : Len(q) = 1}
ChildWalks(p) ==
  {q \in Walks : Len(q) = Len(p) + 1 /\ SubSeq(q, 1, Len(p)) = p}
Running(ws) == {q \in ws : w[q].pc \notin {"done", "skipped"}}
UnitFailed(ws) == \E q \in ws : w[q].uret = "err"
LeafFailed(p) ==
  \E k \in DOMAIN w[p].leaf :
    w[p].leaf[k].sres = "err" \/ w[p].leaf[k].rres = "err"
LeafRunning(p) ==
  {k \in DOMAIN w[p].leaf : w[p].leaf[k].pc \in {"save", "update"}}

\* a SaveFolder call made by the orchestrator fails: a foreign key violation,
\* or an injected failure
SaveFails(f) ==
  \/ "fk" \in SaveFolderOutcomes(f, world.parent[f], store)
  \/ CanFail
SpendOnSave(f) ==
  IF "fk" \in SaveFolderOutcomes(f, world.parent[f], store)
  THEN budget ELSE Spend(budget)

\* sync.go:219-224  folderPool.Go for the next root-fetched folder
WalkSubmit ==
  /\ mpc = "walkPool"
  /\ wi <= Len(world.entry)
  /\ CanSubmit(Cardinality(Running(RootWalks)), FolderPoolMax)
  /\ w' = w @@ (<<world.entry[wi]>> :>
                  NewWalk(IF RunsAfterError(UnitFailed(RootWalks))
                          THEN "save" ELSE "skipped"))
  /\ wi' = wi + 1
  /\ UNCHANGED <<world, mpc, mret, fetched, ti, topUnit, topErr, jobs, metrics, deStore>>
  /\ UNCHANGED <<store, budget, resLocals, tokVars, poolVars, metVars, dbVars, pageVars, logVars, retVars, batchVars, upsertVars, httpVars, mcnVars, fullVars>>

WalkWaitReturns ==
  /\ mpc = "walkPool"
  /\ wi > Len(world.entry)
  /\ AllFinished(Running(RootWalks))

\* sync.go:227-231, 131-145  folderPool.Wait returns nil: SyncAll returns
\* the metrics and nil
WalkWaitOk ==
  /\ WalkWaitReturns
  /\ \A r \in RootWalks : w[r].uret # "err"
  /\ mpc' = "done"
  /\ mret' = "ok"
  /\ UNCHANGED <<world, fetched, ti, topUnit, topErr, wi, w, jobs, metrics, deStore>>
  /\ UNCHANGED <<store, budget, resLocals, tokVars, poolVars, metVars, dbVars, pageVars, logVars, retVars, batchVars, upsertVars, httpVars, mcnVars, fullVars>>

\* sync.go:227-229, 127-129  folderPool.Wait returns the error of a root
\* unit: SyncFolders and SyncAll return it
WalkWaitErr ==
  /\ WalkWaitReturns
  /\ \E r \in RootWalks : w[r].uret = "err"
  /\ mpc' = "done"
  /\ mret' = "err"
  /\ UNCHANGED <<world, fetched, ti, topUnit, topErr, wi, w, jobs, metrics, deStore>>
  /\ UNCHANGED <<store, budget, resLocals, tokVars, poolVars, metVars, dbVars, pageVars, logVars, retVars, batchVars, upsertVars, httpVars, mcnVars, fullVars>>

mainVars == <<world, mpc, mret, fetched, ti, topUnit, topErr, wi>>

\* sync.go:270,278  child unit: SaveFolder(subfolder) succeeds,
\* AddSubfolderSuccess, then SyncFolder(subfolder)
UnitSaveOk(p) ==
  /\ w[p].pc = "unitSave"
  /\ "ok" \in SaveFolderOutcomes(FolderOf(p), world.parent[FolderOf(p)], store)
  /\ store' = store \cup {FolderOf(p)}
  /\ rows' = SaveRow(FolderOf(p), world.parent[FolderOf(p)], rows, dbNow)
  /\ metrics' = [metrics EXCEPT !.ss = @ + 1]
  /\ w' = [w EXCEPT ![p].pc = "save"]
  /\ UNCHANGED <<mainVars, jobs, deStore, budget, resLocals, tokVars, poolVars, metVars, dbNow, rcalls, rowsOnce, pageVars, logVars, retVars, batchVars, upsertVars, httpVars, mcnVars, fullVars>>

\* sync.go:270-277  child unit: SaveFolder(subfolder) fails,
\* AddSubfolderFailure, the unit returns the error
UnitSaveFail(p) ==
  /\ w[p].pc = "unitSave"
  /\ SaveFails(FolderOf(p))
  /\ budget' = SpendOnSave(FolderOf(p))
  /\ metrics' = [metrics EXCEPT !.sf = @ + 1]
  /\ w' = [w EXCEPT ![p].pc = "done", ![p].uret = "err"]
  /\ UNCHANGED <<mainVars, jobs, deStore, store, resLocals, tokVars, poolVars, metVars, dbVars, pageVars, logVars, retVars, batchVars, upsertVars, httpVars, mcnVars, fullVars>>

\* sync.go:237,245-248  SyncFolder: SaveFolder succeeds, AddFolderSuccess
WalkSaveOk(p) ==
  /\ w[p].pc = "save"
  /\ "ok" \in SaveFolderOutcomes(FolderOf(p), world.parent[FolderOf(p)], store)
  /\ store' = store \cup {FolderOf(p)}
  /\ rows' = SaveRow(FolderOf(p), world.parent[FolderOf(p)], rows, dbNow)
  /\ metrics' = [metrics EXCEPT !.fs = @ + 1]
  /\ w' = [w EXCEPT ![p].pc = "fetchSub"]
  /\ UNCHANGED <<mainVars, jobs, deStore, budget, resLocals, tokVars, poolVars, metVars, dbNow, rcalls, rowsOnce, pageVars, logVars, retVars, batchVars, upsertVars, httpVars, mcnVars, fullVars>>

\* A root unit that logs the error of its SyncFolder call and returns nil.
WalkUnitResultSwallowed(p) == "ok"

\* sync.go:222, 282-296  result of the unit around a SyncFolder call that
\* returned an error: the root unit returns it, the child unit logs it and
\* returns nil
WalkUnitResult(p) == IF Len(p) = 1 THEN "err" ELSE "ok"

\* A failed SaveFolder that is counted and logged, after which SyncFolder
\* goes on to the children.
WalkSaveFailContinues(p) ==
  /\ w[p].pc = "save"
  /\ SaveFails(FolderOf(p))
  /\ budget' = SpendOnSave(FolderOf(p))
  /\ metrics' = [metrics EXCEPT !.ff = @ + 1]
  /\ w' = [w EXCEPT ![p].pc = "fetchSub"]
  /\ UNCHANGED <<mainVars, jobs, deStore, store, resLocals, tokVars, poolVars, metVars, dbVars, pageVars, logVars, retVars, batchVars, upsertVars, httpVars, mcnVars, fullVars>>

\* sync.go:237-244  SyncFolder: SaveFolder fails, AddFolderFailure, return
\* the error
WalkSaveFail(p) ==
  /\ w[p].pc = "save"
  /\ SaveFails(FolderOf(p))
  /\ budget' = SpendOnSave(FolderOf(p))
  /\ metrics' = [metrics EXCEPT !.ff = @ + 1]
  /\ w' = [w EXCEPT ![p].pc = "done", ![p].ret = "err",
                    ![p].uret = WalkUnitResult(p)]
  /\ UNCHANGED <<mainVars, jobs, deStore, store, resLocals, tokVars, poolVars, metVars, dbVars, pageVars, logVars, retVars, batchVars, upsertVars, httpVars, mcnVars, fullVars>>

\* sync.go:251,257-263  GetSubFolders succeeds
FetchSubOk(p) ==
  /\ w[p].pc = "fetchSub"
  /\ w' = [w EXCEPT ![p].pc = "subPool", ![p].kidsOk = TRUE, ![p].i = 1]
  /\ UNCHANGED <<mainVars, jobs, metrics, deStore, store, budget, resLocals, tokVars, poolVars, metVars, dbVars, pageVars, logVars, retVars, batchVars, upsertVars, httpVars, mcnVars, fullVars>>

\* A children fetch whose failure ends the walk with an error.
FetchSubFailAborts(p) ==
  /\ w[p].pc = "fetchSub"
  /\ CanFail
  /\ budget' = Spend(budget)
  /\ w' = [w EXCEPT ![p].pc = "done", ![p].ret = "err",
                    ![p].uret = WalkUnitResult(p)]
  /\ UNCHANGED <<mainVars, jobs, metrics, deStore, store, resLocals, tokVars, poolVars, metVars, dbVars, pageVars, logVars, retVars, batchVars, upsertVars, httpVars, mcnVars, fullVars>>

\* sync.go:251-256  GetSubFolders fails: log, go on to the data extensions
FetchSubFail(p) ==
  /\ w[p].pc = "fetchSub"
  /\ CanFail
  /\ budget' = Spend(budget)
  /\ w' = [w EXCEPT ![p].pc = "deFetch"]
  /\ UNCHANGED <<mainVars, jobs, metrics, deStore, store, resLocals, tokVars, poolVars, metVars, dbVars, pageVars, logVars, retVars, batchVars, upsertVars, httpVars, mcnVars, fullVars>>

\* A walk that keeps a visited set: the unit of a child that already has a
\* walk does nothing.
SubSubmitVisited(p) ==
  /\ w[p].pc = "subPool"
  /\ w[p].i <= Len(KidsOf(p))
  /\ CanSubmit(Cardinality(Running(ChildWalks(p))), SubfolderPoolMax)
  /\ w' = [w EXCEPT ![p].i = @ + 1]
          @@ (Append(p, KidsOf(p)[w[p].i]) :>
                NewWalk(IF \E q \in Walks : FolderOf(q) = KidsOf(p)[w[p].i]
                        THEN "skipped" ELSE "unitSave"))
  /\ UNCHANGED <<mainVars, jobs, metrics, deStore, store, budget, resLocals, tokVars, poolVars, metVars, dbVars, pageVars, logVars, retVars, batchVars, upsertVars, httpVars, mcnVars, fullVars>>

\* sync.go:266-298  subfolderPool.Go for the next subfolder
SubSubmit(p) ==
  /\ w[p].pc = "subPool"
  /\ w[p].i <= Len(KidsOf(p))
  /\ CanSubmit(Cardinality(Running(ChildWalks(p))), SubfolderPoolMax)
  /\ w' = [w EXCEPT ![p].i = @ + 1]
          @@ (Append(p, KidsOf(p)[w[p].i]) :>
                NewWalk(IF RunsAfterError(UnitFailed(ChildWalks(p)))
                        THEN "unitSave" ELSE "skipped"))
  /\ UNCHANGED <<mainVars, jobs, metrics, deStore, store, budget, resLocals, tokVars, poolVars, metVars, dbVars, pageVars, logVars, retVars, batchVars, upsertVars, httpVars, mcnVars, fullVars>>

\* A walk that waits for the units of every pool, its own unit included.
SubWaitOnEveryPool(p) ==
  /\ w[p].pc = "subPool"
  /\ w[p].i > Len(KidsOf(p))
  /\ AllFinished(Running(Walks))
  /\ w' = [w EXCEPT ![p].pc = "deFetch"]
  /\ UNCHANGED <<mainVars, jobs, metrics, deStore, store, budget, resLocals, tokVars, poolVars, metVars, dbVars, pageVars, logVars, retVars, batchVars, upsertVars, httpVars, mcnVars, fullVars>>

\* sync.go:301-307  subfolderPool.Wait returns; its error is only logged
SubWait(p) ==
  /\ w[p].pc = "subPool"
  /\ w[p].i > Len(KidsOf(p))
  /\ AllFinished(Running(ChildWalks(p)))
  /\ w' = [w EXCEPT ![p].pc = "deFetch"]
  /\ UNCHANGED <<mainVars, jobs, metrics, deStore, store, budget, resLocals, tokVars, poolVars, metVars, dbVars, pageVars, logVars, retVars, batchVars, upsertVars, httpVars, mcnVars, fullVars>>

\* ---- SyncDataExtensions (sync.go:324-490) ----

\* sync.go:376-377  a leaf unit not yet submitted: its slots of saveResults
\* and retentionResults hold nil; calls counts the UpdateDataRetentionViaAPI
\* calls the unit has made
NoLeaf == [pc |-> "idle", sres |-> "nil", rres |-> "nil", calls |-> 0]
Finish(p) == [w EXCEPT ![p].pc = "done", ![p].ret = "ok", ![p].uret = "ok"]

\* sync.go:336-344  GetDataExtensions succeeds
DeFetchOk(p) ==
  /\ w[p].pc = "deFetch"
  /\ LET n == world.nde[FolderOf(p)]
     IN w' = [w EXCEPT ![p].de = "ok", ![p].n = n, ![p].i = 1,
                       ![p].leaf = [k \in 1..n |-> NoLeaf],
                       ![p].pc = IF n > 0 THEN "jobCreate" ELSE "dePool"]
  /\ UNCHANGED <<mainVars, jobs, metrics, deStore, store, budget, resLocals, tokVars, poolVars, metVars, dbVars, pageVars, logVars, retVars, batchVars, upsertVars, httpVars, mcnVars, fullVars>>

\* sync.go:336-339, 310-317  GetDataExtensions fails: SyncDataExtensions
\* returns the error, SyncFolder logs it and returns nil
DeFetchFail(p) ==
  /\ w[p].pc = "deFetch"
  /\ CanFail
  /\ budget' = Spend(budget)
  /\ w' = [Finish(p) EXCEPT ![p].de = "err"]
  /\ UNCHANGED <<mainVars, jobs, metrics, deStore, store, resLocals, tokVars, poolVars, metVars, dbVars, pageVars, logVars, retVars, batchVars, upsertVars, httpVars, mcnVars, fullVars>>

\* sync.go:356  Status of CreateSyncJobParams
JobStatusRunning == "running"

\* A completion that writes another terminal status.
JobStatusFailed == "failed"

\* sync.go:465  Status of CompleteSyncJobParams
JobStatusCompleted == "completed"

\* sync.go:348-370  CreateSyncJob succeeds: a running job, total_items set
JobCreateOk(p) ==
  /\ w[p].pc = "jobCreate"
  /\ jobs' = jobs @@ (p :> [status |-> JobStatusRunning, total |-> w[p].n,
                            processed |-> 0, succeeded |-> 0, failed |-> 0])
  /\ w' = [w EXCEPT ![p].pc = "dePool", ![p].job = TRUE]
  /\ UNCHANGED <<mainVars, metrics, deStore, store, budget, resLocals, tokVars, poolVars, metVars, dbVars, pageVars, logVars, retVars, batchVars, upsertVars, httpVars, mcnVars, fullVars>>

\* A failed CreateSyncJob that makes SyncDataExtensions give up the batch.
JobCreateFailAborts(p) ==
  /\ w[p].pc = "jobCreate"
  /\ CanFail
  /\ budget' = Spend(budget)
  /\ w' = Finish(p)
  /\ UNCHANGED <<mainVars, jobs, metrics, deStore, store, resLocals, tokVars, poolVars, metVars, dbVars, pageVars, logVars, retVars, batchVars, upsertVars, httpVars, mcnVars, fullVars>>

\* sync.go:360-363  CreateSyncJob fails: log, syncJobID stays uuid.Nil
JobCreateFail(p) ==
  /\ w[p].pc = "jobCreate"
  /\ CanFail
  /\ budget' = Spend(budget)
  /\ w' = [w EXCEPT ![p].pc = "dePool"]
  /\ UNCHANGED <<mainVars, jobs, metrics, deStore, store, resLocals, tokVars, poolVars, metVars, dbVars, pageVars, logVars, retVars, batchVars, upsertVars, httpVars, mcnVars, fullVars>>

\* sync.go:379-412  dataExtPool.Go for the next data extension
LeafSubmit(p) ==
  /\ w[p].pc = "dePool"
  /\ w[p].i <= w[p].n
  /\ CanSubmit(Cardinality(LeafRunning(p)), DataExtPoolMax)
  /\ w' = [w EXCEPT ![p].leaf[w[p].i].pc =
                      IF RunsAfterError(LeafFailed(p)) THEN "save" ELSE "skipped",
                    ![p].i = @ + 1]
  /\ UNCHANGED <<mainVars, jobs, metrics, deStore, store, budget, resLocals, tokVars, poolVars, metVars, dbVars, pageVars, logVars, retVars, batchVars, upsertVars, httpVars, mcnVars, fullVars>>

\* sync.go:384-386  leaf unit: SaveDataExtension succeeds
LeafSaveOk(p, k) ==
  /\ k \in DOMAIN w[p].leaf
  /\ w[p].leaf[k].pc = "save"
  /\ deStore' = deStore \cup {<<FolderOf(p), k>>}
  /\ w' = [w EXCEPT ![p].leaf[k].pc = "update"]
  /\ UNCHANGED <<mainVars, jobs, metrics, store, budget, resLocals, tokVars, poolVars, metVars, dbVars, pageVars, logVars, retVars, batchVars, upsertVars, httpVars, mcnVars, fullVars>>

\* A failed save after which the unit still goes on to the retention update.
LeafSaveFailStillUpdates(p, k) ==
  /\ k \in DOMAIN w[p].leaf
  /\ w[p].leaf[k].pc = "save"
  /\ CanFail
  /\ budget' = Spend(budget)
  /\ w' = [w EXCEPT ![p].leaf[k].pc = "update", ![p].leaf[k].sres = "err"]
  /\ UNCHANGED <<mainVars, jobs, metrics, deStore, store, resLocals, tokVars, poolVars, metVars, dbVars, pageVars, logVars, retVars, batchVars, upsertVars, httpVars, mcnVars, fullVars>>

\* sync.go:384-393  leaf unit: SaveDataExtension fails, saveResults[i] = err,
\* the unit returns without the retention update
LeafSaveFail(p, k) ==
  /\ k \in DOMAIN w[p].leaf
  /\ w[p].leaf[k].pc = "save"
  /\ CanFail
  /\ budget' = Spend(budget)
  /\ w' = [w EXCEPT ![p].leaf[k].pc = "done", ![p].leaf[k].sres = "err"]
  /\ UNCHANGED <<mainVars, jobs, metrics, deStore, store, resLocals, tokVars, poolVars, metVars, dbVars, pageVars, logVars, retVars, batchVars, upsertVars, httpVars, mcnVars, fullVars>>

\* sync.go:396-410  leaf unit: UpdateDataRetentionViaAPI succeeds
LeafUpdateOk(p, k) ==
  /\ k \in DOMAIN w[p].leaf
  /\ w[p].leaf[k].pc = "update"
  /\ w' = [w EXCEPT ![p].leaf[k].pc = "done", ![p].leaf[k].calls = @ + 1]
  /\ UNCHANGED <<mainVars, jobs, metrics, deStore, store, budget, resLocals, tokVars, poolVars, metVars, dbVars, pageVars, logVars, retVars, batchVars, upsertVars, httpVars, mcnVars, fullVars>>

\* sync.go:396-410  leaf unit: UpdateDataRetentionViaAPI fails,
\* retentionResults[i] = err
LeafUpdateFail(p, k) ==
  /\ k \in DOMAIN w[p].leaf
  /\ w[p].leaf[k].pc = "update"
  /\ CanFail
  /\ budget' = Spend(budget)
  /\ w' = [w EXCEPT ![p].leaf[k].pc = "done", ![p].leaf[k].rres = "err",
                    ![p].leaf[k].calls = @ + 1]
  /\ UNCHANGED <<mainVars, jobs, metrics, deStore, store, resLocals, tokVars, poolVars, metVars, dbVars, pageVars, logVars, retVars, batchVars, upsertVars, httpVars, mcnVars, fullVars>>

\* sync.go:418-435  the counts over saveResults and retentionResults
CountLeaf(p, field, val) ==
  Cardinality({k \in DOMAIN w[p].leaf : w[p].leaf[k][field] = val})

\* A failure count that also counts the failed retention updates.
SaveFailedWithRetention(p) ==
  Cardinality({k \in DOMAIN w[p].leaf :
                 w[p].leaf[k].sres = "err" \/ w[p].leaf[k].rres = "err"})

\* sync.go:418-426, 441  succeeded and failed, counted over saveResults only
SaveSucceeded(p) == CountLeaf(p, "sres", "nil")
SaveFailed(p) == CountLeaf(p, "sres", "err")

\* sync.go:415-444  dataExtPool.Wait returns; count the results,
\* metrics.AddDataExtensions; without a job SyncDataExtensions returns nil
LeafWait(p) ==
  /\ w[p].pc = "dePool"
  /\ w[p].i > w[p].n
  /\ AllFinished(LeafRunning(p))
  /\ metrics' = [metrics EXCEPT !.ds = @ + SaveSucceeded(p),
                                !.df = @ + SaveFailed(p)]
  /\ w' = IF w[p].job THEN [w EXCEPT ![p].pc = "jobProgress"] ELSE Finish(p)
  /\ UNCHANGED <<mainVars, jobs, deStore, store, budget, resLocals, tokVars, poolVars, metVars, dbVars, pageVars, logVars, retVars, batchVars, upsertVars, httpVars, mcnVars, fullVars>>

\* A progress update that counts only the records whose save succeeded.
JobProgressCountsSaved(p) ==
  /\ w[p].pc = "jobProgress"
  /\ jobs' = [jobs EXCEPT ![p].processed = @ + SaveSucceeded(p),
                          ![p].succeeded = @ + CountLeaf(p, "rres", "nil"),
                          ![p].failed = @ + CountLeaf(p, "rres", "err")]
  /\ w' = [w EXCEPT ![p].pc = "jobComplete"]
  /\ UNCHANGED <<mainVars, metrics, deStore, store, budget, resLocals, tokVars, poolVars, metVars, dbVars, pageVars, logVars, retVars, batchVars, upsertVars, httpVars, mcnVars, fullVars>>

\* sync.go:446-451, db.go:188-200  UpdateSyncJobProgress adds the increments
JobProgressOk(p) ==
  /\ w[p].pc = "jobProgress"
  /\ jobs' = [jobs EXCEPT ![p].processed = @ + w[p].n,
                          ![p].succeeded = @ + CountLeaf(p, "rres", "nil"),
                          ![p].failed = @ + CountLeaf(p, "rres", "err")]
  /\ w' = [w EXCEPT ![p].pc = "jobComplete"]
  /\ UNCHANGED <<mainVars, metrics, deStore, store, budget, resLocals, tokVars, poolVars, metVars, dbVars, pageVars, logVars, retVars, batchVars, upsertVars, httpVars, mcnVars, fullVars>>

\* sync.go:452-456  UpdateSyncJobProgress fails: log, go on
JobProgressFail(p) ==
  /\ w[p].pc = "jobProgress"
  /\ CanFail
  /\ budget' = Spend(budget)
  /\ w' = [w EXCEPT ![p].pc = "jobComplete"]
  /\ UNCHANGED <<mainVars, jobs, metrics, deStore, store, resLocals, tokVars, poolVars, metVars, dbVars, pageVars, logVars, retVars, batchVars, upsertVars, httpVars, mcnVars, fullVars>>

\* sync.go:464-478, 489  CompleteSyncJob succeeds; SyncDataExtensions and
\* SyncFolder return nil
JobCompleteOk(p) ==
  /\ w[p].pc = "jobComplete"
  /\ jobs' = [jobs EXCEPT ![p].status = JobStatusCompleted]
  /\ w' = Finish(p)
  /\ UNCHANGED <<mainVars, metrics, deStore, store, budget, resLocals, tokVars, poolVars, metVars, dbVars, pageVars, logVars, retVars, batchVars, upsertVars, httpVars, mcnVars, fullVars>>

\* sync.go:470-473, 489  CompleteSyncJob fails: log, return nil
JobCompleteFail(p) ==
  /\ w[p].pc = "jobComplete"
  /\ CanFail
  /\ budget' = Spend(budget)
  /\ w' = Finish(p)
  /\ UNCHANGED <<mainVars, jobs, metrics, deStore, store, resLocals, tokVars, poolVars, metVars, dbVars, pageVars, logVars, retVars, batchVars, upsertVars, httpVars, mcnVars, fullVars>>

\* the leaf units a walk can have
LeafIds == 1..2

Next ==
  \/ SyncFetchOk
  \/ SyncFetchFail
  \/ TopSubmit
  \/ \E i \in DOMAIN topUnit : TopSaveOk(i)
  \/ \E i \in DOMAIN topUnit : TopSaveFail(i)
  \/ TopWaitErr
  \/ TopWaitToResolve
  \/ TopWaitToWalk
  \/ ResolveStep
  \/ ResolveReturn
  \/ WalkSubmit
  \/ WalkWaitOk
  \/ WalkWaitErr
  \/ \E p \in Walks : UnitSaveOk(p)
  \/ \E p \in Walks : UnitSaveFail(p)
  \/ \E p \in Walks : WalkSaveOk(p)
  \/ \E p \in Walks : WalkSaveFail(p)
  \/ \E p \in Walks : FetchSubOk(p)
  \/ \E p \in Walks : FetchSubFail(p)
  \/ \E p \in Walks : SubSubmit(p)
  \/ \E p \in Walks : SubWait(p)
  \/ \E p \in Walks : DeFetchOk(p)
  \/ \E p \in Walks : DeFetchFail(p)
  \/ \E p \in Walks : JobCreateOk(p)
  \/ \E p \in Walks : JobCreateFail(p)
  \/ \E p \in Walks : LeafSubmit(p)
  \/ \E p \in Walks, k \in LeafIds : LeafSaveOk(p, k)
  \/ \E p \in Walks, k \in LeafIds : LeafSaveFail(p, k)
  \/ \E p \in Walks, k \in LeafIds : LeafUpdateOk(p, k)
  \/ \E p \in Walks, k \in LeafIds : LeafUpdateFail(p, k)
  \/ \E p \in Walks : LeafWait(p)
  \/ \E p \in Walks : JobProgressOk(p)
  \/ \E p \in Walks : JobProgressFail(p)
  \/ \E p \in Walks : JobCompleteOk(p)
  \/ \E p \in Walks : JobCompleteFail(p)

Spec == InitSync /\ [][Next]_vars

\* SyncAll and the units of its pools keep running until they return
SpecLive == Spec /\ WF_vars(Next)

(***************************************************************************)
(* One worker pool with more units than its limit                          *)
(***************************************************************************)
PoolKinds == {"topLevel", "folder", "subfolder", "dataExt"}

\* sync.go:181, 216, 263, 375  WithMaxGoroutines of the four pools
PoolMax(kind) ==
  CASE kind = "topLevel" -> TopLevelPoolMax
    [] kind = "folder" -> FolderPoolMax
    [] kind = "subfolder" -> SubfolderPoolMax
    [] kind = "dataExt" -> DataExtPoolMax

\* a pool is created; its submit loop will go through 0..MaxUnits units
InitPool ==
  /\ InitCache
  /\ store = {}
  /\ ResolveIdle
  /\ budget = 0
  /\ SyncIdle
  /\ poolKind \in PoolKinds
  /\ poolUnits \in 0..MaxUnits
  /\ poolIdx = 1
  /\ poolRunning = {}
  /\ poolErr = FALSE
  /\ poolPc = "open"
  /\ MetIdle
  /\ PageIdle
  /\ InitRows
  /\ LogIdle
  /\ RetIdle
  /\ BatchIdle
  /\ UpsertIdle
  /\ HttpIdle
  /\ McnIdle
  /\ FullRowIdle

\* sync.go:182-199, 219-224, 266-298, 379-412  pool.Go in the submit loop:
\* returns once the unit has a goroutine, blocks while the limit is reached
PoolGo ==
  /\ poolPc = "open"
  /\ poolIdx <= poolUnits
  /\ CanSubmit(Cardinality(poolRunning), PoolMax(poolKind))
  /\ RunsAfterError(poolErr)
  /\ poolIdx' = poolIdx + 1
  /\ poolRunning' = poolRunning \cup {poolIdx}
  /\ UNCHANGED <<poolKind, poolUnits, poolErr, poolPc>>
  /\ UNCHANGED <<tokVars, resVars, syncVars, metVars, dbVars, pageVars, logVars, retVars, batchVars, upsertVars, httpVars, mcnVars, fullVars>>

\* a unit returns nil
PoolUnitOk(u) ==
  /\ u \in poolRunning
  /\ poolRunning' = poolRunning \ {u}
  /\ UNCHANGED <<poolKind, poolUnits, poolIdx, poolErr, poolPc>>
  /\ UNCHANGED <<tokVars, resVars, syncVars, metVars, dbVars, pageVars, logVars, retVars, batchVars, upsertVars, httpVars, mcnVars, fullVars>>

\* a unit returns an error; the pool keeps it for Wait
PoolUnitErr(u) ==
  /\ u \in poolRunning
  /\ poolRunning' = poolRunning \ {u}
  /\ poolErr' = TRUE
  /\ UNCHANGED <<poolKind, poolUnits, poolIdx, poolPc>>
  /\ UNCHANGED <<tokVars, resVars, syncVars, metVars, dbVars, pageVars, logVars, retVars, batchVars, upsertVars, httpVars, mcnVars, fullVars>>

\* sync.go:201, 227, 301, 415  pool.Wait returns
PoolWait ==
  /\ poolPc = "open"
  /\ poolIdx > poolUnits
  /\ AllFinished(poolRunning)
  /\ poolPc' = "waited"
  /\ UNCHANGED <<poolKind, poolUnits, poolIdx, poolRunning, poolErr>>
  /\ UNCHANGED <<tokVars, resVars, syncVars, metVars, dbVars, pageVars, logVars, retVars, batchVars, upsertVars, httpVars, mcnVars, fullVars>>

NextPool ==
  \/ PoolGo
  \/ \E u \in 1..poolUnits : PoolUnitOk(u)
  \/ \E u \in 1..poolUnits : PoolUnitErr(u)
  \/ PoolWait

SpecPool == InitPool /\ [][NextPool]_vars

(***************************************************************************)
(* Properties of SyncAll                                                   *)
(***************************************************************************)
TopAllDone == \A i \in DOMAIN topUnit : topUnit[i] = "done"
Descendants(p) ==
  {q \in Walks : Len(q) > Len(p) /\ SubSeq(q, 1, Len(p)) = p}
StepOneSucceeded == fetched = "ok" /\ ti > Len(TopLevelFolders) /\ TopAllDone /\ ~topErr
InDePhase(p) ==
  w[p].pc \in {"deFetch", "jobCreate", "dePool", "jobProgress", "jobComplete"}
  \/ w[p].de # "none"
LeafAllDone(p) == \A k \in DOMAIN w[p].leaf : w[p].leaf[k].pc = "done"

\* C3: if the root fetch fails or the save of a top-level folder fails in
\* step 1, SyncAll returns an error, and neither the resolver nor any
\* SyncFolder call is executed in that run; the metrics keep what was
\* counted before the return.
C3_StepOneFailureIsFatal ==
  (fetched = "err" \/ topErr)
  => /\ rpc = "idle"
     /\ Walks = {}
     /\ mpc \in {"topPool", "done"}
     /\ mpc = "done" => mret = "err"
     /\ metrics.ff = Cardinality({i \in DOMAIN topUnit : topUnit[i] = "done"})
                     - metrics.fs

C3_Witness ==
  /\ mpc = "done"
  /\ mret = "err"
  /\ topErr
  /\ metrics.fs = 1
  /\ metrics.ff = 1

C5_EveryUnitRuns ==
  /\ mpc \in {"resolve", "walkPool", "done"} /\ fetched = "ok" => TopAllDone
  /\ (mpc = "done" /\ StepOneSucceeded)
     => \A i \in 1..Len(world.entry) :
          /\ <<world.entry[i]>> \in Walks
          /\ w[<<world.entry[i]>>].pc = "done"
  /\ \A p \in Walks :
       /\ w[p].pc # "skipped"
       /\ (InDePhase(p) \/ (w[p].pc = "done" /\ w[p].ret = "ok"))
          => /\ \A j \in 1..Len(KidsOf(p)) :
                  /\ Append(p, KidsOf(p)[j]) \in Walks
                  /\ w[Append(p, KidsOf(p)[j])].pc = "done"
                  /\ w[Append(p, KidsOf(p)[j])].uret = "ok"
                     => w[Append(p, KidsOf(p)[j])].ret # "none"
       /\ (w[p].pc = "done" /\ w[p].ret = "ok") => w[p].de # "none"
       /\ (w[p].pc \in {"jobProgress", "jobComplete", "done"} /\ w[p].de = "ok")
          => LeafAllDone(p)

\* a walk that has finished with one child unit failed, the other child
\* walked to its data extensions, and its own data extensions fetched
C5_Witness ==
  \E p \in Walks :
    /\ w[p].pc = "done"
    /\ w[p].de = "ok"
    /\ \E c1, c2 \in ChildWalks(p) :
         /\ w[c1].uret = "err"
         /\ w[c2].ret = "ok"
         /\ w[c2].de = "ok"
         /\ LeafFailed(c2)
         /\ w[c2].n > 0

\* C6: the units of one pool that are in flight at the same time never
\* exceed its limit: 10 for the top-level pool, 10 for the root-walk pool, 5
\* for the subfolder pool of one folder, 10 for the data extension pool of
\* one batch; the submit loop does not go on while the limit is reached.
C6_PoolLimit ==
  /\ poolKind = "topLevel" => Cardinality(poolRunning) <= 10
  /\ poolKind = "folder" => Cardinality(poolRunning) <= 10
  /\ poolKind = "subfolder" => Cardinality(poolRunning) <= 5
  /\ poolKind = "dataExt" => Cardinality(poolRunning) <= 10
  /\ (poolPc = "open" /\ poolIdx <= poolUnits
      /\ Cardinality(poolRunning) >= PoolMax(poolKind))
     => ~ENABLED PoolGo

\* the submit loop blocked at the limit with a unit left to submit
C6_Witness ==
  /\ poolKind = "subfolder"
  /\ poolPc = "open"
  /\ Cardinality(poolRunning) = 5
  /\ poolIdx <= poolUnits
  /\ poolIdx > 6

\* C7: the stages are separated by barriers: the resolver makes no attempt
\* before every top-level unit has finished; no SyncFolder call starts
\* before the resolver has returned; a walk gets to its data extensions only
\* after every child unit and the whole subtree below it has finished; the
\* results of a batch are counted and the job progress written only after
\* every leaf unit of the batch has finished.
C7_StageBarriers ==
  /\ rpc # "idle" => (ti > Len(TopLevelFolders) /\ TopAllDone)
  /\ Walks # {} => (mpc \in {"walkPool", "done"} /\ rpc \in {"idle", "done"}
                    /\ ti > Len(TopLevelFolders) /\ TopAllDone)
  /\ \A p \in Walks :
       /\ InDePhase(p)
          => /\ \A q \in Descendants(p) : w[q].pc = "done"
             /\ \A j \in 1..Len(KidsOf(p)) : Append(p, KidsOf(p)[j]) \in Walks
       /\ (w[p].pc \in {"jobProgress", "jobComplete"}
           \/ (p \in DOMAIN jobs /\ jobs[p].processed > 0))
          => (w[p].i > w[p].n /\ LeafAllDone(p))
  /\ metrics.ds + metrics.df
       = Cardinality({x \in Walks \X LeafIds :
                        /\ x[2] \in DOMAIN w[x[1]].leaf
                        /\ w[x[1]].pc \in {"jobProgress", "jobComplete", "done"}})

\* a walk about to fetch its data extensions with a subtree two levels deep
\* below it, and a batch counted
C7_Witness ==
  /\ \E p \in Walks :
       /\ w[p].pc = "deFetch"
       /\ \E q \in Descendants(p) : Len(q) = Len(p) + 2
  /\ metrics.ds > 0
  /\ rpc = "done"

\* the leaf units of the batches whose results have been counted
CountedLeaves ==
  {x \in Walks \X LeafIds :
     /\ x[2] \in DOMAIN w[x[1]].leaf
     /\ w[x[1]].pc \in {"jobProgress", "jobComplete", "done"}}
LeafOf(x) == w[x[1]].leaf[x[2]]
SavedNotUpdated == {x \in CountedLeaves : LeafOf(x).sres = "nil" /\ LeafOf(x).rres = "err"}

C13_JobCountsUpdateOutcomes ==
  \A p \in DOMAIN jobs :
    jobs[p].processed > 0
    => /\ jobs[p].processed = w[p].n
       /\ jobs[p].succeeded =
            Cardinality({k \in DOMAIN w[p].leaf :
                           w[p].leaf[k].sres = "nil" /\ w[p].leaf[k].rres = "nil"})
       /\ jobs[p].failed =
            Cardinality({k \in DOMAIN w[p].leaf : w[p].leaf[k].rres = "err"})

\* C14: a batch gets at most one job, created with status running and
\* total = len(batch) before any of its records is saved; a job row is
\* never removed; it is changed by at most one progress update, made while
\* it is running, and after that by the completion, which moves the status
\* from running to completed; nothing changes a completed job.
C14_JobLifecycle ==
  /\ [][/\ DOMAIN jobs \subseteq DOMAIN jobs'
        /\ \A p \in DOMAIN jobs' \ DOMAIN jobs :
             /\ p \in Walks
             /\ w[p].pc = "jobCreate"
             /\ ~w[p].job
             /\ jobs'[p] = [status |-> "running", total |-> w[p].n,
                            processed |-> 0, succeeded |-> 0, failed |-> 0]
             /\ \A k \in DOMAIN w[p].leaf : w[p].leaf[k].pc = "idle"
             /\ \A k \in LeafIds : <<FolderOf(p), k>> \in deStore'
                                   => <<FolderOf(p), k>> \in deStore
        /\ \A p \in DOMAIN jobs :
             jobs'[p] # jobs[p]
             => /\ jobs[p].status = "running"
                /\ jobs'[p].total = jobs[p].total
                /\ \/ /\ w[p].pc = "jobProgress"
                      /\ w'[p].pc = "jobComplete"
                      /\ jobs[p].processed = 0
                      /\ jobs'[p].processed = jobs[p].total
                      /\ jobs'[p].status = "running"
                   \/ /\ w[p].pc = "jobComplete"
                      /\ w'[p].pc = "done"
                      /\ jobs'[p] = [jobs[p] EXCEPT !.status = "completed"]]_vars
  /\ [](\A p \in DOMAIN jobs :
          /\ jobs[p].status \in {"running", "completed"}
          /\ jobs[p].total = w[p].n
          /\ jobs[p].total > 0
          /\ w[p].job)

\* a completed job whose progress update was applied, next to a job whose
\* walk has ended with its completion failed
C14_Witness ==
  \E p, q \in DOMAIN jobs :
    /\ jobs[p].status = "completed"
    /\ jobs[p].processed = jobs[p].total
    /\ jobs[q].status = "running"
    /\ w[q].pc = "done"

\* C15: the job-tracking calls do not influence the batch: a step of
\* CreateSyncJob, UpdateSyncJobProgress or CompleteSyncJob, failed or not,
\* changes no data extension row, no metrics counter and no result of a
\* leaf unit, and leads to the same next position of SyncDataExtensions;
\* with or without a job every record of the batch goes through the save
\* and, when saved, the retention update, the metrics get the counts of the
\* saves, and SyncDataExtensions returns nil.
C15_JobTrackingIsInvisible ==
  /\ [][\A p \in Walks :
          (w[p].pc \in {"jobCreate", "jobProgress", "jobComplete"} /\ w'[p] # w[p])
          => /\ deStore' = deStore
             /\ metrics' = metrics
             /\ store' = store
             /\ w'[p].leaf = w[p].leaf
             /\ w'[p].n = w[p].n
             /\ w'[p].pc = CASE w[p].pc = "jobCreate" -> "dePool"
                             [] w[p].pc = "jobProgress" -> "jobComplete"
                             [] w[p].pc = "jobComplete" -> "done"
             /\ w'[p].pc = "done" => w'[p].ret = "ok"]_vars
  /\ [](\A p \in Walks :
          /\ w[p].pc = "dePool" => Len(w[p].leaf) = world.nde[FolderOf(p)]
          /\ (w[p].pc = "done" /\ w[p].de = "ok")
             => /\ w[p].ret = "ok"
                /\ Len(w[p].leaf) = world.nde[FolderOf(p)]
                /\ \A k \in DOMAIN w[p].leaf :
                     /\ w[p].leaf[k].pc = "done"
                     /\ w[p].leaf[k].sres = "nil" => <<FolderOf(p), k>> \in deStore)
  /\ [](metrics.ds + metrics.df = Cardinality(CountedLeaves))

\* a batch that ran to its end without a job (CreateSyncJob failed), its
\* record saved and counted, next to a batch of the same folder with a job
C15_Witness ==
  \E p, q \in Walks :
    /\ FolderOf(p) = FolderOf(q)
    /\ w[p].pc = "done" /\ w[q].pc = "done"
    /\ w[p].n > 0
    /\ ~w[p].job /\ p \notin DOMAIN jobs
    /\ w[q].job /\ jobs[q].processed = 0
    /\ w[p].leaf = w[q].leaf
    /\ w[p].ret = w[q].ret
    /\ metrics.ds = 2

\* sync.go:81-92  TotalSucceeded and TotalFailed
TotalSucceeded(m) == m.fs + m.ss + m.ds
TotalFailed(m) == m.ff + m.sf + m.df

\* the SaveFolder and SaveDataExtension calls made so far in the run
TopAttempts == Cardinality({i \in DOMAIN topUnit : topUnit[i] = "done"})
ResolverAttempts ==
  LET RECURSIVE Sum(_)
      Sum(S) == IF S = {} THEN 0
                ELSE LET f == CHOOSE x \in S : TRUE
                     IN tried[f] + Sum(S \ {f})
  IN Sum(FolderIds)
ChildAttempts ==
  Cardinality({p \in Walks : Len(p) > 1 /\ w[p].pc \notin {"unitSave", "skipped"}})
WalkAttempts ==
  Cardinality({p \in Walks :
                 /\ w[p].pc \notin {"unitSave", "save", "skipped"}
                 /\ ~(w[p].pc = "done" /\ w[p].ret = "none")})
LeafAttempts ==
  Cardinality({x \in Walks \X LeafIds :
                 /\ x[2] \in DOMAIN w[x[1]].leaf
                 /\ LeafOf(x).pc \in {"update", "done"}})

\* C16: after a run TotalSucceeded + TotalFailed equals the number of
\* SaveFolder calls (top-level, resolver, walk, child) plus the number of
\* SaveDataExtension calls made during the run.
C16_EveryAttemptCountedOnce ==
  mpc = "done"
  => TotalSucceeded(metrics) + TotalFailed(metrics)
       = TopAttempts + ResolverAttempts + WalkAttempts + ChildAttempts
         + LeafAttempts

(***************************************************************************)
(* SyncMetrics under concurrent callers                                    *)
(***************************************************************************)
Counters == {"fs", "ff", "ss", "sf", "ds", "df"}

\* the succeeded and failed arguments of AddDataExtensions
DeCounts == {0, 2}

\* sync.go:31-92  the methods: for an Add* method the fields it increments
\* with the amounts, for a Total* method the fields it adds up
MetricCalls ==
  {[kind |-> "add", todo |-> <<[f |-> c, d |-> 1]>>] : c \in Counters}
  \cup {[kind |-> "add", todo |-> <<[f |-> "ds", d |-> a], [f |-> "df", d |-> b]>>] :
          a \in DeCounts, b \in DeCounts}
  \cup {[kind |-> "total", todo |-> <<[f |-> "fs", d |-> 0], [f |-> "ss", d |-> 0],
                                     [f |-> "ds", d |-> 0]>>],
        [kind |-> "total", todo |-> <<[f |-> "ff", d |-> 0], [f |-> "sf", d |-> 0],
                                     [f |-> "df", d |-> 0]>>]}

\* A mutex that never blocks.
MuFreeAlways(holder) == TRUE

\* sync.Mutex: Lock returns only while no caller holds the mutex
MuFree(holder) == holder = 0

syncRest == <<world, mpc, mret, fetched, ti, topUnit, topErr, wi, w, jobs, deStore>>

InitMetrics ==
  /\ InitCache
  /\ store = {}
  /\ ResolveIdle
  /\ budget = 0
  /\ SyncIdle
  /\ PoolIdle
  /\ MetIdle
  /\ PageIdle
  /\ InitRows
  /\ LogIdle
  /\ RetIdle
  /\ BatchIdle
  /\ UpsertIdle
  /\ HttpIdle
  /\ McnIdle
  /\ FullRowIdle

\* sync.go:32, 39, 46, 53, 60, 67, 74, 82, 89  a method is called and
\* m.mu.Lock() returns
MetLock(t, call) ==
  /\ mt[t].pc = "idle"
  /\ mops < MaxMetricOps
  /\ MuFree(mu)
  /\ mu' = t
  /\ mops' = mops + 1
  /\ mt' = [mt EXCEPT ![t] = [pc |-> "run", kind |-> call.kind,
                              todo |-> call.todo, tmp |-> 0, acc |-> 0]]
  /\ UNCHANGED <<applied, metrics, syncRest, tokVars, resVars, poolVars, dbVars, pageVars, logVars, retVars, batchVars, upsertVars, httpVars, mcnVars, fullVars>>

\* sync.go:34, 41, 48, 55, 62, 69, 76-77  m.X++ / m.X += n: load the field
MetLoad(t) ==
  /\ mt[t].pc = "run"
  /\ mt[t].kind = "add"
  /\ mt[t].todo # <<>>
  /\ mt' = [mt EXCEPT ![t].pc = "store", ![t].tmp = metrics[Head(mt[t].todo).f]]
  /\ UNCHANGED <<mu, applied, mops, metrics, syncRest, tokVars, resVars, poolVars, dbVars, pageVars, logVars, retVars, batchVars, upsertVars, httpVars, mcnVars, fullVars>>

\* sync.go:34, 41, 48, 55, 62, 69, 76-77  m.X++ / m.X += n: store the sum
MetStore(t) ==
  /\ mt[t].pc = "store"
  /\ LET h == Head(mt[t].todo)
     IN /\ metrics' = [metrics EXCEPT ![h.f] = mt[t].tmp + h.d]
        /\ applied' = [applied EXCEPT ![h.f] = @ + h.d]
  /\ mt' = [mt EXCEPT ![t].pc = "run", ![t].todo = Tail(@)]
  /\ UNCHANGED <<mu, mops, syncRest, tokVars, resVars, poolVars, dbVars, pageVars, logVars, retVars, batchVars, upsertVars, httpVars, mcnVars, fullVars>>

\* sync.go:84, 91  the next operand of the sum of a Total* method
MetSum(t) ==
  /\ mt[t].pc = "run"
  /\ mt[t].kind = "total"
  /\ mt[t].todo # <<>>
  /\ mt' = [mt EXCEPT ![t].acc = @ + metrics[Head(mt[t].todo).f],
                      ![t].todo = Tail(@)]
  /\ UNCHANGED <<mu, applied, mops, metrics, syncRest, tokVars, resVars, poolVars, dbVars, pageVars, logVars, retVars, batchVars, upsertVars, httpVars, mcnVars, fullVars>>

\* sync.go:33, 40, 47, 54, 61, 68, 75, 83, 90  the method returns (acc is
\* the result of a Total* method) and the deferred m.mu.Unlock() runs
MetReturn(t) ==
  /\ mt[t].pc = "run"
  /\ mt[t].todo = <<>>
  /\ mu' = 0
  /\ mt' = [mt EXCEPT ![t].pc = "idle"]
  /\ UNCHANGED <<applied, mops, metrics, syncRest, tokVars, resVars, poolVars, dbVars, pageVars, logVars, retVars, batchVars, upsertVars, httpVars, mcnVars, fullVars>>

NextMetrics ==
  \/ \E t \in Threads, call \in MetricCalls : MetLock(t, call)
  \/ \E t \in Threads : MetLoad(t)
  \/ \E t \in Threads : MetStore(t)
  \/ \E t \in Threads : MetSum(t)
  \/ \E t \in Threads : MetReturn(t)

SpecMetrics == InitMetrics /\ [][NextMetrics]_vars

\* C17: under concurrent callers no counter ever decreases, every counter
\* equals the sum of the increments applied to it (none lost), and a Total*
\* method returns the sum of its three counters as they stand at the
\* instant it returns, no counter having changed during the call.
C17_MetricsLinearizable ==
  /\ [][/\ \A c \in Counters : metrics'[c] >= metrics[c]
        /\ \A t \in Threads :
             (mt[t].pc = "run" /\ mt[t].kind = "total" /\ mt'[t].pc = "idle")
             => \/ mt[t].acc = metrics.fs + metrics.ss + metrics.ds
                \/ mt[t].acc = metrics.ff + metrics.sf + metrics.df
        /\ \A t \in Threads :
             (mt[t].kind = "total" /\ mt[t].pc = "run" /\ mt'[t].kind = "total")
             => metrics' = metrics]_vars
  /\ [](\A c \in Counters : metrics[c] = applied[c])
  /\ [](\A t \in Threads : mt[t].pc # "idle" => mu = t)

\* an AddFolderSuccess and an AddDataExtensions(2, n) have been applied and a
\* TotalSucceeded call has returned their sum
C17_Witness ==
  /\ metrics.fs = 1
  /\ metrics.ds = 2
  /\ \E t \in Threads :
       /\ mt[t].pc = "idle"
       /\ mt[t].kind = "total"
       /\ mt[t].acc = 3

(***************************************************************************)
(* DataExtensionService.GetDataExtensions: pagination                      *)
(***************************************************************************)
\* numbers of items the remote returns for one page: none, fewer than the
\* page size, exactly the page size, more than asked for
PageLens == {0, 1, pageSize - 1, pageSize, pageSize + 1}

\* len(resp.Items) of client.GetDataExtensions(folderID, page, pageSize);
\* past the pages the remote holds the answer is an empty page
RemoteLen(pg) == IF pg \in DOMAIN pgRemote THEN pgRemote[pg] ELSE 0

\* resp.Items of page pg
PageItems(pg) == [k \in 1..RemoteLen(pg) |-> <<pg, k>>]

\* A last-page test that also stops on a full page.
IsLastPageWhenFull(n) == n <= pageSize

\* export_top_dataextensions.go:358  len(resp.Items) < pageSize
IsLastPage(n) == n < pageSize

InitPages ==
  /\ InitCache
  /\ store = {}
  /\ ResolveIdle
  /\ budget = MaxFaults
  /\ SyncIdle
  /\ PoolIdle
  /\ MetIdle
  /\ InitRows
  /\ LogIdle
  /\ RetIdle
  /\ BatchIdle
  /\ UpsertIdle
  /\ HttpIdle
  /\ McnIdle
  /\ FullRowIdle
  /\ pgRemote \in [1..MaxPages -> PageLens]
  /\ pgPage = 1
  /\ pgCalls = <<>>
  /\ pgItems = <<>>
  /\ pgPc = "loop"
  /\ pgErr = FALSE

pgFrame == <<pgRemote, tokVars, resLocals, store, syncVars, poolVars, metVars,
             dbVars, logVars, retVars, batchVars, upsertVars, httpVars, mcnVars, fullVars>>

\* A failed page fetch that returns the items fetched so far with the error.
PgFetchFailKeepsItems ==
  /\ pgPc = "loop"
  /\ CanFail
  /\ budget' = Spend(budget)
  /\ pgCalls' = Append(pgCalls, pgPage)
  /\ pgErr' = TRUE
  /\ pgPc' = "done"
  /\ UNCHANGED <<pgPage, pgItems, pgFrame>>

\* export_top_dataextensions.go:337-340  the client call fails: return nil
\* and the error
PgFetchFail ==
  /\ pgPc = "loop"
  /\ CanFail
  /\ budget' = Spend(budget)
  /\ pgCalls' = Append(pgCalls, pgPage)
  /\ pgItems' = <<>>
  /\ pgErr' = TRUE
  /\ pgPc' = "done"
  /\ UNCHANGED <<pgPage, pgFrame>>

\* export_top_dataextensions.go:337-345  an empty page: break
PgFetchEmpty ==
  /\ pgPc = "loop"
  /\ RemoteLen(pgPage) = 0
  /\ pgCalls' = Append(pgCalls, pgPage)
  /\ pgPc' = "done"
  /\ UNCHANGED <<pgPage, pgItems, pgErr, budget, pgFrame>>

\* export_top_dataextensions.go:337-364  a page with items that is the last
\* one: append its items, break
PgFetchLast ==
  /\ pgPc = "loop"
  /\ RemoteLen(pgPage) # 0
  /\ IsLastPage(RemoteLen(pgPage))
  /\ pgCalls' = Append(pgCalls, pgPage)
  /\ pgItems' = pgItems \o PageItems(pgPage)
  /\ pgPc' = "done"
  /\ UNCHANGED <<pgPage, pgErr, budget, pgFrame>>

\* export_top_dataextensions.go:337-367  a page with items that is not the
\* last one: append its items, page++
PgFetchMore ==
  /\ pgPc = "loop"
  /\ RemoteLen(pgPage) # 0
  /\ ~IsLastPage(RemoteLen(pgPage))
  /\ pgCalls' = Append(pgCalls, pgPage)
  /\ pgItems' = pgItems \o PageItems(pgPage)
  /\ pgPage' = pgPage + 1
  /\ UNCHANGED <<pgPc, pgErr, budget, pgFrame>>

NextPages ==
  \/ PgFetchFail
  \/ PgFetchEmpty
  \/ PgFetchLast
  \/ PgFetchMore

SpecPages == InitPages /\ [][NextPages]_vars

\* the first page that is empty or shorter than the page size
FirstShortPage ==
  CHOOSE i \in 1..(MaxPages + 1) :
    /\ RemoteLen(i) < 96
    /\ \A j \in 1..(i - 1) : RemoteLen(j) >= 96

InitTwice ==
  /\ InitCache
  /\ rFolders \in InjSeqs(FolderIds)
  /\ rMap \in {Range(rFolders), FolderIds}
  /\ rParent \in [FolderIds -> ParentValues \ {""}]
  /\ \A f \in FolderIds \ rMap : rParent[f] = "0"
  /\ store \in {{}, {ExternalId} \cup FolderIds}
  /\ saved = [f \in FolderIds |-> FALSE]
  /\ attempt = 0
  /\ ridx = 1
  /\ allSaved = TRUE
  /\ rpc = "loop"
  /\ tried = [f \in FolderIds |-> 0]
  /\ savedPass = [f \in FolderIds |-> 0]
  /\ storeFail = FALSE
  /\ budget = MaxTwiceFaults
  /\ SyncIdle
  /\ PoolIdle
  /\ MetIdle
  /\ PageIdle
  /\ InitRows
  /\ LogIdle
  /\ RetIdle
  /\ BatchIdle
  /\ UpsertIdle
  /\ HttpIdle
  /\ McnIdle
  /\ FullRowIdle

\* the first call has returned: the caller invokes SaveFoldersInOrder again
\* with the same folders and folderMap
ResCallAgain ==
  /\ rpc = "done"
  /\ rcalls = 0
  /\ rcalls' = 1
  /\ rowsOnce' = rows
  /\ ResolveStart(rFolders, rParent, rMap)
  /\ UNCHANGED <<store, budget, rows, dbNow, tokVars, syncVars, poolVars, metVars, pageVars, logVars, retVars, batchVars, upsertVars, httpVars, mcnVars, fullVars>>

\* 001_initial_schema.sql:21-22, 124  CURRENT_TIMESTAMP advances between the
\* two calls
DbTick ==
  /\ rpc = "done"
  /\ rcalls = 0
  /\ dbNow < MaxTicks
  /\ dbNow' = dbNow + 1
  /\ UNCHANGED <<rows, rcalls, rowsOnce, resVars, tokVars, syncVars, poolVars, metVars, pageVars, logVars, retVars, batchVars, upsertVars, httpVars, mcnVars, fullVars>>

NextTwice ==
  \/ ResolveStep
  \/ ResCallAgain
  \/ DbTick

SpecTwice == InitTwice /\ [][NextTwice]_vars

\* a row without the column the update trigger maintains
WithoutUpdatedAt(r) == [id |-> r.id, parent |-> r.parent, data |-> r.data]
BothCallsReturned == rcalls = 1 /\ rpc = "done"
NoStoreFault == budget = MaxTwiceFaults

C20_ResolverNeverFails ==
  /\ [](rpc \in {"idle", "loop", "done"})
  /\ [][/\ (rpc = "loop" /\ rpc' # "loop")
           => /\ rpc' = "done"
              /\ ((\E i \in 1..Len(rFolders) : ~saved[rFolders[i]])
                    => attempt' = maxRetries)
        /\ (mpc = "resolve" /\ mpc' # "resolve")
           => (rpc = "done" /\ mpc' = "walkPool" /\ mret' = "none")]_vars

\* the walk stage has begun after a resolver call that used all five
\* passes and left one folder deferred and another refused by the store
C20_Witness ==
  /\ mpc = "walkPool"
  /\ Walks # {}
  /\ rpc = "done"
  /\ attempt = maxRetries
  /\ storeFail
  /\ \E i, j \in 1..Len(rFolders) :
       /\ ~saved[rFolders[i]] /\ tried[rFolders[i]] = 0
       /\ ~saved[rFolders[j]] /\ tried[rFolders[j]] = maxRetries

(***************************************************************************)
(* Non-FK failures inside SaveFoldersInOrder (checked under SpecResolve).  *)
(***************************************************************************)

\* C21: a folder whose SaveFolder call failed with an error that is not a
\* foreign-key violation is left unsaved and is not retried: once the
\* non-FK error has been logged for a folder, no step of the call makes a
\* further SaveFolder call for it or marks it saved.
C21_NonFKFailureNotRetried ==
  [][\A f \in nonFK : tried'[f] = tried[f] /\ ~saved'[f]]_vars

\* every folder of the list is marked saved
EverySaved == \A i \in 1..Len(rFolders) : saved[rFolders[i]]

\* the parent graph of the list has a cycle of length two
TwoCycle ==
  \E i, j \in 1..Len(rFolders) :
    /\ i # j
    /\ rParent[rFolders[i]] = rFolders[j]
    /\ rParent[rFolders[j]] = rFolders[i]

\* C22: SaveFoldersInOrder returns after at most 5 passes for any input,
\* cyclic parent graphs included: the call eventually returns and the pass
\* counter never exceeds 5; a folder has had at most one SaveFolder call in
\* each pass begun so far (none yet in the current pass if the loop has not
\* reached it); a foreign-key failure clears allSaved, and a folder attempted
\* before and still unsaved is attempted again when the loop reaches it; at
\* the end of a pass allSaved holds exactly when every folder is saved, the
\* call then returns without another pass, and a further pass is begun only
\* with a folder unsaved.
C22_TerminatesWithinFivePasses ==
  /\ <>(rpc = "done")
  /\ [](attempt <= maxRetries)
  /\ [](rpc = "loop"
        => \A i \in 1..Len(rFolders) :
             tried[rFolders[i]] <= attempt + (IF i < ridx THEN 1 ELSE 0))
  /\ [](rpc = "done" => \A f \in FolderIds : tried[f] <= maxRetries)
  /\ [](rpc = "loop" /\ ridx = Len(rFolders) + 1 => (allSaved <=> EverySaved))
  /\ [][/\ (InLoop /\ ~saved[Cur] /\ tried[Cur] > 0)
           => (tried'[Cur] = tried[Cur] + 1 /\ ridx' = ridx + 1)
        /\ (InLoop /\ tried'[Cur] = tried[Cur] + 1 /\ ~saved'[Cur])
           => ~allSaved'
        /\ (rpc = "loop" /\ ridx = Len(rFolders) + 1 /\ EverySaved)
           => (rpc' = "done" /\ attempt' = attempt)
        /\ (rpc = "loop" /\ rpc' = "loop" /\ attempt' # attempt)
           => (attempt' = attempt + 1 /\ ridx' = 1 /\ ~EverySaved)]_vars

\* the call has returned after five passes on a list with a two-cycle whose
\* folders were deferred in every pass, and a third folder was refused with
\* a foreign-key violation in each of the five passes
C22_Witness ==
  /\ rpc = "done"
  /\ attempt = maxRetries
  /\ TwoCycle
  /\ \E i \in 1..Len(rFolders) :
       /\ tried[rFolders[i]] = maxRetries
       /\ ~saved[rFolders[i]]
       /\ rFolders[i] \notin nonFK

\* the call has returned before the fifth pass, at the end of the first
\* pass that left every folder saved, after a foreign-key failure
ReturnedEarly ==
  /\ rpc = "done"
  /\ attempt \in 1..(maxRetries - 2)
  /\ EverySaved
  /\ \E i \in 1..Len(rFolders) : tried[rFolders[i]] = attempt + 1

(***************************************************************************)
(* DataExtensionService.SaveDataExtension and UpdateDataRetentionViaAPI,   *)
(* called one after the other for one data extension.  Every SQL statement *)
(* runs on d.db.Pool() and is a step of its own.                           *)
(***************************************************************************)
xRest == <<tokVars, store, rFolders, rParent, rMap, saved, attempt, ridx,
           allSaved, rpc, tried, savedPass, storeFail, syncVars, poolVars,
           metVars, dbVars, pageVars, logVars, batchVars, upsertVars, httpVars, mcnVars, fullVars>>

InitRetention ==
  /\ InitCache
  /\ store = {}
  /\ ResolveIdle
  /\ budget = MaxFaults
  /\ SyncIdle
  /\ PoolIdle
  /\ MetIdle
  /\ PageIdle
  /\ InitRows
  /\ LogIdle
  /\ BatchIdle
  /\ UpsertIdle
  /\ HttpIdle
  /\ McnIdle
  /\ FullRowIdle
  /\ deRow \in {"none", "old"}
  /\ drRow \in {NoRow} \cup
               (IF deRow = "old"
                THEN {CreateDataRetentionProperties(c) : c \in RetentionConfigs}
                ELSE {})
  /\ xPc = "idle"
  /\ xCfg = NoConfig
  /\ xRet = "none"
  /\ xOps = 0
  /\ sent = <<>>
  /\ recStreak = 0
  /\ callStreak = 0
  /\ lostWrite = FALSE

\* export_top_dataextensions.go:381  the value of field
\* DataRetentionPeriodLength of the payload
PayloadLength == 1

\* export_top_dataextensions.go:380-386  the payload built by
\* UpdateDataRetentionViaAPI
Payload ==
  [length |-> PayloadLength, unit |-> 5, deleteAtEnd |-> FALSE,
   rowBased |-> TRUE, resetOnImport |-> FALSE]

\* a call starts: the caller is idle and has calls left
CanCall == xPc = "idle" /\ xOps < MaxRetentionOps

\* export_top_dataextensions.go:233,264-269  CreateDataExtension inserts the
\* row; with a config the call goes on to the retention statements
SdeCreateOk(c) ==
  /\ CanCall
  /\ deRow = "none"
  /\ deRow' = "new"
  /\ xOps' = xOps + 1
  /\ xCfg' = c
  /\ xPc' = IF c = NoConfig THEN "idle" ELSE "retention"
  /\ xRet' = IF c = NoConfig THEN "nil" ELSE "none"
  /\ UNCHANGED <<drRow, sent, recStreak, callStreak, lostWrite, budget, xRest>>

\* export_top_dataextensions.go:233-256  the row exists: unique violation,
\* then UpdateDataExtension writes the record's values
SdeUpdateOk(c) ==
  /\ CanCall
  /\ deRow # "none"
  /\ deRow' = "new"
  /\ xOps' = xOps + 1
  /\ xCfg' = c
  /\ xPc' = IF c = NoConfig THEN "idle" ELSE "retention"
  /\ xRet' = IF c = NoConfig THEN "nil" ELSE "none"
  /\ UNCHANGED <<drRow, sent, recStreak, callStreak, lostWrite, budget, xRest>>

\* export_top_dataextensions.go:250-263  the insert fails with another error,
\* or the update fails: return the error
SdeSaveFail ==
  /\ CanCall
  /\ CanFail
  /\ budget' = Spend(budget)
  /\ xOps' = xOps + 1
  /\ xRet' = "err"
  /\ UNCHANGED <<deRow, drRow, xPc, xCfg, sent, recStreak, callStreak,
                 lostWrite, xRest>>

\* export_top_dataextensions.go:279,299  CreateDataRetentionProperties
\* inserts the retention row: return nil
SdeRetInsertOk ==
  /\ xPc = "retention"
  /\ drRow = NoRow
  /\ drRow' = CreateDataRetentionProperties(xCfg)
  /\ xPc' = "idle"
  /\ xRet' = "nil"
  /\ UNCHANGED <<deRow, xCfg, xOps, sent, recStreak, callStreak, lostWrite,
                 budget, xRest>>

\* export_top_dataextensions.go:279-290,299  the insert fails on the primary
\* key and UpdateDataRetentionProperties writes the config: return nil
SdeRetUpdateOk ==
  /\ xPc = "retention"
  /\ drRow # NoRow
  /\ drRow' = UpdateDataRetentionProperties(drRow, xCfg)
  /\ xPc' = "idle"
  /\ xRet' = "nil"
  /\ UNCHANGED <<deRow, xCfg, xOps, sent, recStreak, callStreak, lostWrite,
                 budget, xRest>>

\* export_top_dataextensions.go:279-299  the insert fails for another reason
\* and the update finds no row, or the update itself fails: the error is
\* logged as a warning and the call returns nil
SdeRetLost ==
  /\ xPc = "retention"
  /\ CanFail
  /\ budget' = Spend(budget)
  /\ xPc' = "idle"
  /\ xRet' = "nil"
  /\ UNCHANGED <<deRow, drRow, xCfg, xOps, sent, recStreak, callStreak,
                 lostWrite, xRest>>

\* export_top_dataextensions.go:388-395  the status write 'pending' is applied
UpdPendingOk ==
  /\ CanCall
  /\ drRow # NoRow
  /\ drRow' = UpdateDataRetentionAPIUpdateStatus(drRow, "pending", NoText, Payload)
  /\ xOps' = xOps + 1
  /\ xPc' = "api"
  /\ xRet' = "none"
  /\ UNCHANGED <<deRow, xCfg, sent, recStreak, callStreak, lostWrite, budget,
                 xRest>>

\* export_top_dataextensions.go:388-402  the status write 'pending' fails (no
\* row, or a store error): warn and continue with the API call
UpdPendingFail ==
  /\ CanCall
  /\ drRow = NoRow \/ CanFail
  /\ budget' = IF drRow = NoRow THEN budget ELSE Spend(budget)
  /\ lostWrite' = TRUE
  /\ xOps' = xOps + 1
  /\ xPc' = "api"
  /\ xRet' = "none"
  /\ UNCHANGED <<deRow, drRow, xCfg, sent, recStreak, callStreak, xRest>>

\* export_top_dataextensions.go:405,428  client.UpdateDataRetention returns nil
UpdApiOk ==
  /\ xPc = "api"
  /\ sent' = Append(sent, Payload)
  /\ xPc' = "succeeded"
  /\ UNCHANGED <<deRow, drRow, xCfg, xRet, xOps, recStreak, callStreak,
                 lostWrite, budget, xRest>>

\* export_top_dataextensions.go:405-411  client.UpdateDataRetention returns
\* an error
UpdApiFail ==
  /\ xPc = "api"
  /\ CanFail
  /\ budget' = Spend(budget)
  /\ sent' = Append(sent, Payload)
  /\ xPc' = "failed"
  /\ UNCHANGED <<deRow, drRow, xCfg, xRet, xOps, recStreak, callStreak,
                 lostWrite, xRest>>

\* export_top_dataextensions.go:412-425  the status write 'failed' is applied;
\* the call returns the API error
UpdFailedOk ==
  /\ xPc = "failed"
  /\ drRow # NoRow
  /\ \E n \in ErrorLengths :
       drRow' = UpdateDataRetentionAPIUpdateStatus(drRow, "failed",
                                                   ErrorText(n), Payload)
  /\ recStreak' = recStreak + 1
  /\ callStreak' = callStreak + 1
  /\ xPc' = "idle"
  /\ xRet' = "err"
  /\ UNCHANGED <<deRow, xCfg, xOps, sent, lostWrite, budget, xRest>>

\* export_top_dataextensions.go:412-425  the status write 'failed' fails: log;
\* the call returns the API error
UpdFailedFail ==
  /\ xPc = "failed"
  /\ drRow = NoRow \/ CanFail
  /\ budget' = IF drRow = NoRow THEN budget ELSE Spend(budget)
  /\ lostWrite' = TRUE
  /\ callStreak' = callStreak + 1
  /\ xPc' = "idle"
  /\ xRet' = "err"
  /\ UNCHANGED <<deRow, drRow, xCfg, xOps, sent, recStreak, xRest>>

\* export_top_dataextensions.go:428-447  the status write 'succeeded' is
\* applied; return nil
UpdSucceededOk ==
  /\ xPc = "succeeded"
  /\ drRow # NoRow
  /\ drRow' = UpdateDataRetentionAPIUpdateStatus(drRow, "succeeded", NoText,
                                               Payload)
  /\ recStreak' = 0
  /\ callStreak' = 0
  /\ xPc' = "idle"
  /\ xRet' = "nil"
  /\ UNCHANGED <<deRow, xCfg, xOps, sent, lostWrite, budget, xRest>>

\* export_top_dataextensions.go:428-447  the status write 'succeeded' fails:
\* log; return nil since the API call succeeded
UpdSucceededFail ==
  /\ xPc = "succeeded"
  /\ drRow = NoRow \/ CanFail
  /\ budget' = IF drRow = NoRow THEN budget ELSE Spend(budget)
  /\ lostWrite' = TRUE
  /\ callStreak' = 0
  /\ xPc' = "idle"
  /\ xRet' = "nil"
  /\ UNCHANGED <<deRow, drRow, xCfg, xOps, sent, recStreak, xRest>>

NextRetention ==
  \/ \E c \in RetentionConfigs \cup {NoConfig} :
       SdeCreateOk(c) \/ SdeUpdateOk(c)
  \/ SdeSaveFail
  \/ SdeRetInsertOk
  \/ SdeRetUpdateOk
  \/ SdeRetLost
  \/ UpdPendingOk
  \/ UpdPendingFail
  \/ UpdApiOk
  \/ UpdApiFail
  \/ UpdFailedOk
  \/ UpdFailedFail
  \/ UpdSucceededOk
  \/ UpdSucceededFail

SpecRetention == InitRetention /\ [][NextRetention]_vars

(***************************************************************************)
(* Claims about the retention row (checked under SpecRetention).           *)
(***************************************************************************)

C24_StandardPayload ==
  \A i \in 1..Len(sent) :
    sent[i] = [length |-> 3, unit |-> 5, deleteAtEnd |-> FALSE,
               rowBased |-> TRUE, resetOnImport |-> FALSE]

\* the config columns of retention row r hold the values of config c
HoldsConfig(r, c) ==
  /\ r # NoRow
  /\ r.length = c.length
  /\ r.unit = c.unit
  /\ r.deleteAtEnd = c.deleteAtEnd
  /\ r.rowBased = c.rowBased
  /\ r.resetOnImport = c.resetOnImport

\* C26: a leaf record and its RetentionConfig are saved as one unit: when
\* SaveDataExtension returns nil for a record that carries a config, the
\* retention row of the record exists and holds the config's values, and
\* between calls the leaf row written from such a record is never in the
\* store without a retention row.
C26_LeafAndRetentionTogether ==
  /\ [][(xPc = "retention" /\ xPc' = "idle" /\ xRet' = "nil")
        => HoldsConfig(drRow', xCfg)]_vars
  /\ [](xPc = "idle" /\ deRow = "new" /\ xCfg # NoConfig => drRow # NoRow)

(***************************************************************************)
(* FolderService.SaveFoldersBatch and                                      *)
(* DataExtensionService.SaveDataExtensionsBatch: tx := Pool().Begin, defer *)
(* tx.Rollback, one save call per element, tx.Commit.  A statement run on  *)
(* tx becomes visible at Commit and is dropped by Rollback; a statement    *)
(* run on the pool is committed when it returns.                           *)
(***************************************************************************)
BatchKinds == {"folders", "dataExtensions"}

\* folder.go:53,66 (f.db.Pool()) and export_top_dataextensions.go:233,249
\* (d.db.Pool()): the connection the statements of the save call of kind k
\* run on
SaveConn(k) == "pool"

bRest == <<tokVars, store, rFolders, rParent, rMap, saved, attempt, ridx,
           allSaved, rpc, tried, savedPass, storeFail, syncVars, poolVars,
           metVars, dbVars, pageVars, logVars, retVars, upsertVars, httpVars, mcnVars, fullVars>>

InitBatch ==
  /\ InitCache
  /\ store = {}
  /\ ResolveIdle
  /\ budget = MaxFaults
  /\ SyncIdle
  /\ PoolIdle
  /\ MetIdle
  /\ PageIdle
  /\ InitRows
  /\ LogIdle
  /\ RetIdle
  /\ UpsertIdle
  /\ HttpIdle
  /\ McnIdle
  /\ FullRowIdle
  /\ bKind \in BatchKinds
  /\ bItems \in InjSeqs(FolderIds)
  /\ bIdx = 1
  /\ bPc = "begin"
  /\ bRet = "none"
  /\ bTable \in [FolderIds -> {"none", "old"}]
  /\ bBefore = bTable
  /\ txPending = {}

\* folder.go:90  export_top_dataextensions.go:304  Begin succeeds
BatchBeginOk ==
  /\ bPc = "begin"
  /\ bPc' = "loop"
  /\ UNCHANGED <<bKind, bItems, bIdx, bRet, bTable, bBefore, txPending,
                 budget, bRest>>

\* folder.go:90-93  export_top_dataextensions.go:304-307  Begin fails
BatchBeginFail ==
  /\ bPc = "begin"
  /\ CanFail
  /\ budget' = Spend(budget)
  /\ bPc' = "done"
  /\ bRet' = "err"
  /\ UNCHANGED <<bKind, bItems, bIdx, bTable, bBefore, txPending, bRest>>

\* folder.go:96-97  export_top_dataextensions.go:310-311  the save call of
\* the next element returns nil: its row is inserted or updated
BatchSaveOk ==
  /\ bPc = "loop"
  /\ bIdx <= Len(bItems)
  /\ IF SaveConn(bKind) = "pool"
     THEN /\ bTable' = [bTable EXCEPT ![bItems[bIdx]] = "new"]
          /\ UNCHANGED txPending
     ELSE /\ txPending' = txPending \cup {bItems[bIdx]}
          /\ UNCHANGED bTable
  /\ bIdx' = bIdx + 1
  /\ UNCHANGED <<bKind, bItems, bPc, bRet, bBefore, budget, bRest>>

\* folder.go:97-99,94  export_top_dataextensions.go:311-313,308  the save
\* call returns an error: return it; the deferred Rollback drops what was
\* written on tx
BatchSaveFail ==
  /\ bPc = "loop"
  /\ bIdx <= Len(bItems)
  /\ CanFail
  /\ budget' = Spend(budget)
  /\ txPending' = {}
  /\ bPc' = "done"
  /\ bRet' = "err"
  /\ UNCHANGED <<bKind, bItems, bIdx, bTable, bBefore, bRest>>

\* folder.go:102-107  export_top_dataextensions.go:316-321  Commit succeeds:
\* what was written on tx becomes visible; return nil
BatchCommitOk ==
  /\ bPc = "loop"
  /\ bIdx = Len(bItems) + 1
  /\ bTable' = [i \in FolderIds |-> IF i \in txPending THEN "new" ELSE bTable[i]]
  /\ txPending' = {}
  /\ bPc' = "done"
  /\ bRet' = "nil"
  /\ UNCHANGED <<bKind, bItems, bIdx, bBefore, budget, bRest>>

\* folder.go:102-104,94  export_top_dataextensions.go:316-318,308  Commit
\* fails: return the error
BatchCommitFail ==
  /\ bPc = "loop"
  /\ bIdx = Len(bItems) + 1
  /\ CanFail
  /\ budget' = Spend(budget)
  /\ txPending' = {}
  /\ bPc' = "done"
  /\ bRet' = "err"
  /\ UNCHANGED <<bKind, bItems, bIdx, bTable, bBefore, bRest>>

NextBatch ==
  \/ BatchBeginOk
  \/ BatchBeginFail
  \/ BatchSaveOk
  \/ BatchSaveFail
  \/ BatchCommitOk
  \/ BatchCommitFail

SpecBatch == InitBatch /\ [][NextBatch]_vars

\* C25: SaveFoldersBatch and SaveDataExtensionsBatch are all-or-nothing:
\* when the call has returned an error the table holds what it held when
\* the call was made, and when it has returned nil the row of every element
\* of the batch holds the element's values.
C25_BatchAllOrNothing ==
  /\ bRet = "err" => bTable = bBefore
  /\ bRet = "nil" => \A i \in 1..Len(bItems) : bTable[bItems[i]] = "new"

(***************************************************************************)
(* Concurrent calls of FolderService.SaveFolder.  Every statement runs on  *)
(* the pool and is atomic; id is the primary key of table folders and      *)
(* parent_id references folders(id) (001_initial_schema.sql:12-24).        *)
(***************************************************************************)
uRest == <<tokVars, store, rFolders, rParent, rMap, saved, attempt, ridx,
           allSaved, rpc, tried, savedPass, storeFail, syncVars, poolVars,
           metVars, dbVars, pageVars, logVars, retVars, batchVars, httpVars, mcnVars, fullVars>>

\* the rows of table tbl with id i
RowsOf(tbl, i) == {k \in 1..Len(tbl) : tbl[k].id = i}

\* the folders passed to SaveFolder
SaveArgs ==
  {[id |-> i, parent |-> p, data |-> v] :
     i \in {"A", "B"}, p \in {"0", ExternalId}, v \in Savers}

InitUpsert ==
  /\ InitCache
  /\ store = {}
  /\ ResolveIdle
  /\ budget = MaxTwiceFaults
  /\ SyncIdle
  /\ PoolIdle
  /\ MetIdle
  /\ PageIdle
  /\ InitRows
  /\ LogIdle
  /\ RetIdle
  /\ BatchIdle
  /\ HttpIdle
  /\ McnIdle
  /\ FullRowIdle
  /\ fTable \in {<<>>,
                 <<[id |-> ExternalId, data |-> 0]>>,
                 <<[id |-> ExternalId, data |-> 0], [id |-> "A", data |-> 0]>>}
  /\ sfArg \in {a \in [Savers -> SaveArgs] : \A t \in Savers : a[t].data = t}
  /\ sfPc = [t \in Savers |-> "start"]
  /\ sfErr = [t \in Savers |-> ""]
  /\ sfRet = [t \in Savers |-> "none"]

\* An error test that recognises no error as a uniqueness conflict.
isUniqueConstraintViolationNever(code) == FALSE

\* export_top_dataextensions.go:450-467  SQLSTATE 23505
isUniqueConstraintViolation(code) == code = "23505"

\* 001_initial_schema.sql:12-24  outcome of INSERT INTO folders for folder f
\* on table tbl: "23505" if the primary key exists, "23503" if parent_id is
\* not null and has no row, "" if the row is inserted
InsertOutcome(tbl, f) ==
  IF RowsOf(tbl, f.id) # {} THEN "23505"
  ELSE IF ~IsSentinel(f.parent) /\ RowsOf(tbl, f.parent) = {} THEN "23503"
  ELSE ""

\* folder.go:53  CreateFolder returns: the row is inserted, or the statement
\* is refused by a constraint
SfInsert(t) ==
  /\ sfPc[t] = "start"
  /\ LET o == InsertOutcome(fTable, sfArg[t]) IN
       /\ sfErr' = [sfErr EXCEPT ![t] = o]
       /\ IF o = ""
          THEN /\ fTable' = Append(fTable, [id |-> sfArg[t].id, data |-> sfArg[t].data])
               /\ sfPc' = [sfPc EXCEPT ![t] = "done"]
               /\ sfRet' = [sfRet EXCEPT ![t] = "nil"]
          ELSE /\ sfPc' = [sfPc EXCEPT ![t] = "failedInsert"]
               /\ UNCHANGED <<fTable, sfRet>>
  /\ UNCHANGED <<sfArg, budget, uRest>>

\* folder.go:53  CreateFolder fails for another reason
SfInsertOther(t) ==
  /\ sfPc[t] = "start"
  /\ CanFail
  /\ budget' = Spend(budget)
  /\ sfErr' = [sfErr EXCEPT ![t] = "other"]
  /\ sfPc' = [sfPc EXCEPT ![t] = "failedInsert"]
  /\ UNCHANGED <<fTable, sfArg, sfRet, uRest>>

\* folder.go:54-57  the insert error is a uniqueness conflict: go on to
\* UpdateFolder
SfToUpdate(t) ==
  /\ sfPc[t] = "failedInsert"
  /\ isUniqueConstraintViolation(sfErr[t])
  /\ sfPc' = [sfPc EXCEPT ![t] = "update"]
  /\ UNCHANGED <<fTable, sfArg, sfErr, sfRet, budget, uRest>>

\* folder.go:74-80  any other insert error is returned
SfInsertErr(t) ==
  /\ sfPc[t] = "failedInsert"
  /\ ~isUniqueConstraintViolation(sfErr[t])
  /\ sfPc' = [sfPc EXCEPT ![t] = "done"]
  /\ sfRet' = [sfRet EXCEPT ![t] = "err"]
  /\ UNCHANGED <<fTable, sfArg, sfErr, budget, uRest>>

\* folder.go:58-73,85  UpdateFolder writes the folder's values to the row
\* with its id: return nil
SfUpdateOk(t) ==
  /\ sfPc[t] = "update"
  /\ RowsOf(fTable, sfArg[t].id) # {}
  /\ fTable' = [k \in 1..Len(fTable) |->
                  IF fTable[k].id = sfArg[t].id
                  THEN [fTable[k] EXCEPT !.data = sfArg[t].data]
                  ELSE fTable[k]]
  /\ sfErr' = [sfErr EXCEPT ![t] = ""]
  /\ sfPc' = [sfPc EXCEPT ![t] = "done"]
  /\ sfRet' = [sfRet EXCEPT ![t] = "nil"]
  /\ UNCHANGED <<sfArg, budget, uRest>>

\* folder.go:66-72  UpdateFolder fails: the error is returned
SfUpdateFail(t) ==
  /\ sfPc[t] = "update"
  /\ CanFail
  /\ budget' = Spend(budget)
  /\ sfErr' = [sfErr EXCEPT ![t] = "other"]
  /\ sfPc' = [sfPc EXCEPT ![t] = "done"]
  /\ sfRet' = [sfRet EXCEPT ![t] = "err"]
  /\ UNCHANGED <<fTable, sfArg, uRest>>

NextUpsert ==
  \E t \in Savers :
    \/ SfInsert(t)
    \/ SfInsertOther(t)
    \/ SfToUpdate(t)
    \/ SfInsertErr(t)
    \/ SfUpdateOk(t)
    \/ SfUpdateFail(t)

SpecUpsert == InitUpsert /\ [][NextUpsert]_vars

\* C27: SaveFolder turns a uniqueness conflict into an update and returns
\* nil: the table never holds two rows with one id; a call returns an error
\* only when its last statement failed with a foreign-key violation or
\* another store error, never with the uniqueness conflict; an insert
\* refused for the existing id is followed by the update; and when all the
\* concurrent calls have returned without such an error, all returned nil
\* and every saved id has exactly one row.
C27_UpsertOneRow ==
  /\ [](\A i \in FolderIds \cup {ExternalId} : Cardinality(RowsOf(fTable, i)) <= 1)
  /\ [](\A t \in Savers :
          /\ sfRet[t] = "err" => sfErr[t] \in {"23503", "other"}
          /\ sfPc[t] = "done" /\ sfRet[t] = "nil"
             => Cardinality(RowsOf(fTable, sfArg[t].id)) = 1)
  /\ []((\A t \in Savers : sfPc[t] = "done" /\ sfErr[t] \notin {"23503", "other"})
        => \A t \in Savers : sfRet[t] = "nil")
  /\ [][\A t \in Savers :
          (sfPc[t] = "failedInsert" /\ sfErr[t] = "23505" /\ sfPc'[t] # sfPc[t])
          => sfPc'[t] = "update"]_vars

\* two concurrent calls for the same new id have both returned nil: the
\* later one met the row of the earlier one and updated it; one row exists
\* and holds the later caller's values
C27_Witness ==
  \E t, u \in Savers :
    /\ t # u
    /\ sfArg[t].id = "A" /\ sfArg[u].id = "A"
    /\ sfPc[t] = "done" /\ sfPc[u] = "done"
    /\ sfRet[t] = "nil" /\ sfRet[u] = "nil"
    /\ budget = MaxTwiceFaults
    /\ Len(fTable) = 1
    /\ fTable[1] = [id |-> "A", data |-> u]

(***************************************************************************)
(* The two locks of the program: tokenCache.mu and SyncMetrics.mu.  The    *)
(* two objects share no state; a behaviour exercises the callers of one of *)
(* them.                                                                   *)
(***************************************************************************)
NextLocks ==
  \/ MetIdle /\ NextToken
  \/ InitCache /\ NextMetrics

SpecLocks == InitToken /\ [][NextLocks]_vars

\* C28: no lock is held across a network call: a caller whose Authenticate
\* call is outstanding holds neither the read nor the write lock of the
\* token cache, which are held only at the cache check and at the cache
\* write; the metrics mutex is held only by a caller inside a method, whose
\* steps while it holds the mutex are reads and writes of the counters and
\* the return, and no other caller moves meanwhile.
C28_NoLockAcrossNetworkCall ==
  /\ [](\A c \in Callers :
          /\ tpc[c] = "auth" => (c \notin rlock /\ wlock # c)
          /\ c \in rlock <=> tpc[c] = "rlocked"
          /\ wlock = c <=> tpc[c] = "wlocked")
  /\ [](\A t \in Threads : mu = t <=> mt[t].pc \in {"run", "store"})
  /\ [][mu # 0
        => /\ mt'[mu] # mt[mu]
           /\ \A t \in Threads \ {mu} : mt'[t] = mt[t]
           /\ UNCHANGED tokVars]_vars

\* a caller's Authenticate call is outstanding while another caller holds
\* the read lock for its cache check
C28_Witness ==
  \E c, e \in Callers :
    /\ tpc[c] = "auth"
    /\ e \in rlock
    /\ c \notin rlock

\* a caller holds the metrics mutex between the load and the store of the
\* second counter of AddDataExtensions
MutexHeldInMethod ==
  \E t \in Threads :
    /\ mu = t
    /\ mt[t].pc = "store"
    /\ Len(mt[t].todo) = 1
    /\ Head(mt[t].todo).f = "df"

(***************************************************************************)
(* The leaf units of one batch (checked under Spec).                       *)
(***************************************************************************)

\* the leaf units of all walks, as <<walk, index>>
LeafUnits == {x \in Walks \X LeafIds : x[2] \in DOMAIN w[x[1]].leaf}

\* C29: within a batch the retention update of a record is called only
\* after its save has succeeded, once if the save succeeded and never if it
\* failed; a step writes the slots of at most one index of saveResults and
\* retentionResults, that of the unit taking the step; the slices are read
\* (the batch leaves the pool stage) only when every unit has finished, and
\* do not change afterwards.
C29_UpdateAfterSaveOnce ==
  /\ [](\A x \in LeafUnits :
          /\ LeafOf(x).calls <= 1
          /\ LeafOf(x).calls = 1 => LeafOf(x).sres = "nil" /\ LeafOf(x).pc = "done"
          /\ LeafOf(x).pc = "update" => <<FolderOf(x[1]), x[2]>> \in deStore
          /\ LeafOf(x).pc = "done"
             => (LeafOf(x).calls = 1 <=> LeafOf(x).sres = "nil")
          /\ LeafOf(x).rres = "err" => LeafOf(x).calls = 1)
  /\ [][\A p \in Walks :
          /\ p \in DOMAIN w'
          /\ \A k \in DOMAIN w[p].leaf :
               /\ k \in DOMAIN w'[p].leaf
               /\ w'[p].leaf[k] # w[p].leaf[k]
                  => /\ w[p].pc = "dePool"
                     /\ \A j \in DOMAIN w[p].leaf \ {k} :
                          w'[p].leaf[j] = w[p].leaf[j]
                     /\ \A q \in Walks \ {p} : w'[q].leaf = w[q].leaf
               /\ (w'[p].leaf[k].sres # w[p].leaf[k].sres
                   \/ w'[p].leaf[k].calls # w[p].leaf[k].calls)
                  => w[p].leaf[k].pc \in {"save", "update"}
               /\ w'[p].leaf[k].calls # w[p].leaf[k].calls
                  => w[p].leaf[k].pc = "update"
          /\ (w[p].pc = "dePool" /\ w'[p].pc # "dePool")
             => /\ w[p].i > w[p].n
                /\ \A k \in DOMAIN w[p].leaf : w[p].leaf[k].pc = "done"]_vars

\* a batch of two records has been counted: one was saved and its update
\* was called once, the save of the other failed and no update was called
C29_Witness ==
  \E p \in Walks :
    /\ w[p].pc \in {"jobProgress", "jobComplete", "done"}
    /\ DOMAIN w[p].leaf = {1, 2}
    /\ \E k, j \in {1, 2} :
         /\ w[p].leaf[k].sres = "nil" /\ w[p].leaf[k].calls = 1
         /\ w[p].leaf[j].sres = "err" /\ w[p].leaf[j].calls = 0
         /\ <<FolderOf(p), k>> \in deStore

\* two leaf units of one batch run at the same time, one saving and one
\* in its retention update
LeafUnitsOverlap ==
  \E p \in Walks : \E k, j \in DOMAIN w[p].leaf :
    w[p].leaf[k].pc = "save" /\ w[p].leaf[j].pc = "update"

(***************************************************************************)
(* A failed children fetch inside SyncFolder (checked under SpecLive).     *)
(***************************************************************************)

\* the walk p is past its children fetch, which failed
SubFetchFailed(p) ==
  /\ ~w[p].kidsOk
  /\ InDePhase(p) \/ (w[p].pc = "done" /\ w[p].ret = "ok")

\* C30: when GetSubFolders fails in a walk, the failing step changes no
\* metric and no table and leads to the fetch of the folder's own data
\* extensions; the walk has no child unit, so it saves and walks no child;
\* once it has ended it has returned nil, has made its GetDataExtensions
\* call and has finished every leaf unit of the batch it fetched; and the
\* run ends, with every such walk ended.
C30_ChildFetchSoftFails ==
  /\ <>(mret # "none")
  /\ [](\A p \in Walks :
          SubFetchFailed(p)
          => /\ ChildWalks(p) = {}
             /\ w[p].pc = "done"
                => /\ w[p].ret = "ok"
                   /\ w[p].de # "none"
                   /\ LeafAllDone(p)
             /\ mret # "none" => w[p].pc = "done")
  /\ [][\A p \in Walks :
          (w[p].pc = "fetchSub" /\ ~w'[p].kidsOk /\ w'[p].pc # "fetchSub")
          => /\ w'[p].pc = "deFetch"
             /\ metrics' = metrics
             /\ store' = store
             /\ deStore' = deStore
             /\ DOMAIN w' = DOMAIN w]_vars

\* a walk of a folder that has children in the remote system has ended
\* after its children fetch failed: it has no child unit, and it fetched its
\* data extensions and finished the units of its batch
C30_Witness ==
  \E p \in Walks :
    /\ SubFetchFailed(p)
    /\ world.kids[FolderOf(p)] # <<>>
    /\ ChildWalks(p) = {}
    /\ w[p].pc = "done"
    /\ w[p].ret = "ok"
    /\ w[p].de = "ok"
    /\ w[p].n > 0
    /\ LeafAllDone(p)

(***************************************************************************)
(* http.Client.Do (pkg/http/util.go:89-194): one operation retried by       *)
(* backoff.Retry with an exponential backoff and a maximum elapsed time     *)
(***************************************************************************)
hRest == <<tokVars, resVars, syncVars, poolVars, metVars, dbVars, pageVars,
           logVars, retVars, batchVars, upsertVars, mcnVars, fullVars>>

\* status codes a server answers with
HttpStatuses == {200, 301, 399, 400, 404, 499, 500, 503}

NoOutcome == [kind |-> "none", status |-> 0]

InitHttp ==
  /\ InitCache
  /\ store = {}
  /\ ResolveIdle
  /\ budget = 0
  /\ SyncIdle
  /\ PoolIdle
  /\ MetIdle
  /\ InitRows
  /\ PageIdle
  /\ LogIdle
  /\ RetIdle
  /\ BatchIdle
  /\ UpsertIdle
  /\ McnIdle
  /\ FullRowIdle
  /\ hOpts \in [buildable : BOOLEAN]
  /\ hPc = "try"
  /\ hTries = 0
  /\ hLast = NoOutcome
  /\ hFirst = NoOutcome
  /\ hElapsed = 0
  /\ hCtx \in {"live", "done"}
  /\ hRet = NoOutcome

\* util.go:113-172  what operation returns for what happened in it:
\* err is "nil", "retryable" (a plain error) or "permanent" (backoff.Permanent)
OperationRetriesClientErrors(o) ==
  IF o.kind = "build" THEN [resp |-> FALSE, err |-> "permanent"]
  ELSE IF o.kind = "net" THEN [resp |-> FALSE, err |-> "retryable"]
  ELSE IF o.kind = "read" THEN [resp |-> FALSE, err |-> "permanent"]
  ELSE IF o.status >= 400 THEN [resp |-> FALSE, err |-> "retryable"]
  ELSE [resp |-> TRUE, err |-> "nil"]

Operation(o) ==
  IF o.kind = "build" THEN [resp |-> FALSE, err |-> "permanent"]
  ELSE IF o.kind = "net" THEN [resp |-> FALSE, err |-> "retryable"]
  ELSE IF o.kind = "read" THEN [resp |-> FALSE, err |-> "permanent"]
  ELSE IF o.status >= 500 THEN [resp |-> FALSE, err |-> "retryable"]
  ELSE IF o.status >= 400 THEN [resp |-> FALSE, err |-> "permanent"]
  ELSE [resp |-> TRUE, err |-> "nil"]

\* operation has run with outcome o, taking d backoff intervals of time
Attempted(o, d) ==
  /\ hPc = "try"
  /\ hPc' = "retry"
  /\ hTries' = hTries + 1
  /\ hLast' = o
  /\ hFirst' = IF hTries = 0 THEN o ELSE hFirst
  /\ hElapsed' = IF hElapsed + d > MaxElapsedUnits + 1
                 THEN MaxElapsedUnits + 1 ELSE hElapsed + d
  /\ UNCHANGED <<hRest, hOpts, hCtx, hRet>>

\* util.go:114-118  buildRequest fails (it depends on opts only)
HttpBuildFail ==
  /\ ~hOpts.buildable
  /\ Attempted([kind |-> "build", status |-> 0], 0)

\* util.go:124-132  httpClient.Do fails: a network error, the 30 s timeout,
\* or a context that is done
HttpNetErr ==
  /\ hOpts.buildable
  /\ \E d \in {0, 1} : Attempted([kind |-> "net", status |-> 0], d)

\* util.go:135-139  reading the body fails
HttpReadFail ==
  /\ hOpts.buildable
  /\ hCtx = "live"
  /\ \E d \in {0, 1} : Attempted([kind |-> "read", status |-> 0], d)

\* util.go:141-171  a response with status st was read
HttpResponse(st) ==
  /\ hOpts.buildable
  /\ hCtx = "live"
  /\ \E d \in {0, 1} : Attempted([kind |-> "status", status |-> st], d)

Returned(r) ==
  /\ hPc' = "done"
  /\ hRet' = r
  /\ UNCHANGED <<hRest, hOpts, hTries, hLast, hFirst, hElapsed, hCtx>>

\* util.go:179,188-193  operation returned no error: Retry and Do return the
\* response
HttpReturnResp ==
  /\ hPc = "retry"
  /\ Operation(hLast).err = "nil"
  /\ Returned([kind |-> "resp", status |-> hLast.status])

\* util.go:179-186  a permanent error ends Retry at once
HttpReturnPermanent ==
  /\ hPc = "retry"
  /\ Operation(hLast).err = "permanent"
  /\ Returned([kind |-> "err", status |-> 0])

\* util.go:179-186  Retry stops on a context that is done
HttpReturnCtx ==
  /\ hPc = "retry"
  /\ Operation(hLast).err = "retryable"
  /\ hCtx = "done"
  /\ Returned([kind |-> "err", status |-> 0])

\* util.go:176,179-186  the next interval would pass MaxElapsed
HttpReturnElapsed ==
  /\ hPc = "retry"
  /\ Operation(hLast).err = "retryable"
  /\ hCtx = "live"
  /\ hElapsed + 1 > MaxElapsedUnits
  /\ Returned([kind |-> "err", status |-> 0])

\* util.go:175,179  Retry starts the timer of the next interval
HttpBackoff ==
  /\ hPc = "retry"
  /\ Operation(hLast).err = "retryable"
  /\ hCtx = "live"
  /\ hElapsed + 1 <= MaxElapsedUnits
  /\ hPc' = "wait"
  /\ UNCHANGED <<hRest, hOpts, hTries, hLast, hFirst, hElapsed, hCtx, hRet>>

\* the timer fires: operation is called again
HttpWaitDone ==
  /\ hPc = "wait"
  /\ hPc' = "try"
  /\ hElapsed' = hElapsed + 1
  /\ UNCHANGED <<hRest, hOpts, hTries, hLast, hFirst, hCtx, hRet>>

\* the context ends during the wait
HttpWaitCtx ==
  /\ hPc = "wait"
  /\ hCtx = "done"
  /\ Returned([kind |-> "err", status |-> 0])

\* util.go:108-111  opts.Context is cancelled or reaches its deadline
HttpCancel ==
  /\ hPc # "done"
  /\ hCtx = "live"
  /\ hCtx' = "done"
  /\ UNCHANGED <<hRest, hOpts, hPc, hTries, hLast, hFirst, hElapsed, hRet>>

NextHttp ==
  \/ HttpBuildFail
  \/ HttpNetErr
  \/ HttpReadFail
  \/ \E st \in HttpStatuses : HttpResponse(st)
  \/ HttpReturnResp
  \/ HttpReturnPermanent
  \/ HttpReturnCtx
  \/ HttpReturnElapsed
  \/ HttpBackoff
  \/ HttpWaitDone
  \/ HttpWaitCtx
  \/ HttpCancel

SpecHttp == InitHttp /\ [][NextHttp]_vars

\* the outcomes of an attempt by class
TransientOutcome(o) == o.kind = "net" \/ (o.kind = "status" /\ o.status >= 500)

PermanentOutcome(o) ==
  \/ o.kind \in {"build", "read"}
  \/ o.kind = "status" /\ o.status \in 400..499

\* C31: a response with status >= 500 or a network error is followed by a
\* backoff wait and another attempt unless the context is done or the next
\* interval would pass MaxElapsed, and the operation ends on such an error only
\* for one of these two reasons; a response with status 400-499, a
\* request-build error and a body-read error end the operation with an error
\* in that attempt (after exactly one attempt when it is the first); Do
\* returns a response only for a status below 400, the one of the last attempt.
C31_TransportRetryClasses ==
     /\ [](hRet.kind = "resp"
            => /\ hLast.kind = "status"
               /\ hLast.status < 400
               /\ hRet.status = hLast.status)
     /\ [](hPc = "done" /\ PermanentOutcome(hFirst) => hTries = 1 /\ hRet.kind = "err")
     /\ [](hPc = "done" /\ PermanentOutcome(hLast) => hRet.kind = "err")
     /\ [](hPc = "done" /\ TransientOutcome(hLast)
            => /\ hRet.kind = "err"
               /\ hCtx = "done" \/ hElapsed + 1 > MaxElapsedUnits)
     /\ [][/\ (hPc = "retry" /\ PermanentOutcome(hLast) /\ hPc' # "retry")
              => hPc' = "done" /\ hTries' = hTries
           /\ (hPc = "retry" /\ TransientOutcome(hLast) /\ hPc' # "retry"
                 /\ hCtx = "live" /\ hElapsed + 1 <= MaxElapsedUnits)
              => hPc' = "wait"
           /\ (hPc = "wait" /\ hPc' # "wait")
              => \/ hPc' = "try" /\ hElapsed' = hElapsed + 1
                 \/ hPc' = "done" /\ hCtx = "done"
           /\ (hPc = "try" /\ hPc' # "try") => hTries' = hTries + 1]_vars

\* C31 witness: a server error was retried and the second attempt got a
\* client error, which ended the operation after two attempts
C31_Witness ==
  /\ hPc = "done"
  /\ hTries = 2
  /\ hFirst.kind = "status" /\ hFirst.status >= 500
  /\ hLast.kind = "status" /\ hLast.status \in 400..499
  /\ hRet.kind = "err"

(***************************************************************************)
(* sfmcn.Salesforce.getAccessToken (pkg/salesforce/mcn/config.go:58-90)     *)
(***************************************************************************)
nRest == <<tokVars, resVars, syncVars, poolVars, metVars, dbVars, pageVars,
           logVars, retVars, batchVars, upsertVars, httpVars, fullVars>>

InitMcn ==
  /\ InitCache
  /\ store = {}
  /\ ResolveIdle
  /\ budget = 0
  /\ SyncIdle
  /\ PoolIdle
  /\ MetIdle
  /\ InitRows
  /\ PageIdle
  /\ LogIdle
  /\ RetIdle
  /\ BatchIdle
  /\ UpsertIdle
  /\ HttpIdle
  /\ FullRowIdle
  /\ nTok = 0
  /\ nExp = 0
  /\ nNow = 1
  /\ nPc = "check"
  /\ nResp = 0
  /\ nRet = NoRet
  /\ nAuths = 0
  /\ nCalls = 0

\* config.go:62-76  under the read lock: the cached token is returned when it
\* is not empty and not expired; otherwise RUnlock and go on to Authenticate
McnCheck ==
  /\ nPc = "check"
  /\ IF CacheValid(nTok, nExp, nNow)
     THEN /\ nPc' = "done"
          /\ nRet' = [tok |-> nTok, err |-> FALSE]
          /\ nCalls' = nCalls + 1
     ELSE /\ nPc' = "auth"
          /\ UNCHANGED <<nRet, nCalls>>
  /\ UNCHANGED <<nRest, nTok, nExp, nNow, nResp, nAuths>>

\* config.go:76, 93-129  Authenticate returns a fresh token
McnAuthOk ==
  /\ nPc = "auth"
  /\ nAuths < MaxTok + 1
  /\ nAuths' = nAuths + 1
  /\ nResp' = nAuths + 1
  /\ nPc' = "store"
  /\ UNCHANGED <<nRest, nTok, nExp, nNow, nRet, nCalls>>

\* config.go:76-80  Authenticate fails: the error is returned
McnAuthFail ==
  /\ nPc = "auth"
  /\ nAuths < MaxTok + 1
  /\ nAuths' = nAuths + 1
  /\ nRet' = [tok |-> 0, err |-> TRUE]
  /\ nPc' = "done"
  /\ UNCHANGED <<nRest, nTok, nExp, nNow, nResp, nCalls>>

\* config.go:82-89  Lock, store the token (expiresAt is not assigned), Unlock,
\* return the token
McnStore ==
  /\ nPc = "store"
  /\ nTok' = nResp
  /\ nRet' = [tok |-> nResp, err |-> FALSE]
  /\ nCalls' = nCalls + 1
  /\ nPc' = "done"
  /\ UNCHANGED <<nRest, nExp, nNow, nResp, nAuths>>

\* client.go:185  the next API call asks for the token again
McnAgain ==
  /\ nPc = "done"
  /\ nAuths < MaxTok + 1
  /\ nCalls < MaxTok + 1
  /\ nPc' = "check"
  /\ UNCHANGED <<nRest, nTok, nExp, nNow, nResp, nRet, nAuths, nCalls>>

\* a minute passes; the run stays far inside the 20 minutes of a token
McnTick ==
  /\ nNow < MaxTicks + 3
  /\ nNow' = nNow + 1
  /\ UNCHANGED <<nRest, nTok, nExp, nPc, nResp, nRet, nAuths, nCalls>>

NextMcn ==
  \/ McnCheck
  \/ McnAuthOk
  \/ McnAuthFail
  \/ McnStore
  \/ McnAgain
  \/ McnTick

SpecMcn == InitMcn /\ [][NextMcn]_vars

\* C32: once a successful getAccessToken call has cached a token, a following
\* call made within the token's validity returns the cached token and makes
\* no Authenticate call.
C32_McnCacheIsUsed ==
  [][(nPc = "check" /\ nTok # 0 /\ nPc' # "check")
     => /\ nPc' = "done"
        /\ nRet' = [tok |-> nTok, err |-> FALSE]
        /\ nAuths' = nAuths]_vars

(***************************************************************************)
(* Folders the resolver never attempts (checked under SpecResolve).        *)
(***************************************************************************)

\* f hangs, through at most n parent links inside folderMap, under a key of
\* folderMap that is not in the list
UnderUnlisted(f, n) ==
  LET RECURSIVE Under(_, _)
      Under(g, k) ==
        /\ ~IsSentinel(rParent[g])
        /\ rParent[g] \in rMap
        /\ \/ rParent[g] \notin Range(rFolders)
           \/ k > 0 /\ Under(rParent[g], k - 1)
  IN Under(f, n)

\* the arguments have the shape SyncFolders passes (sync.go:166-173, 208):
\* the list holds the folders with a parent, folderMap all fetched folders
\* and those outside the list are top-level
AsSyncFoldersCalls ==
  /\ rMap \ Range(rFolders) # {}
  /\ \A f \in rMap :
       f \in Range(rFolders) <=> ~IsSentinel(rParent[f])

RECURSIVE Occurrences(_, _), ViaParents(_, _, _)
Occurrences(f, n) ==
  (IF f \in Range(world.entry) THEN 1 ELSE 0)
  + (IF n = 0 THEN 0 ELSE ViaParents(FolderIds, f, n))

ViaParents(S, f, n) ==
  IF S = {} THEN 0
  ELSE LET g == CHOOSE x \in S : TRUE
       IN (IF f \in Range(world.kids[g]) THEN Occurrences(g, n - 1) ELSE 0)
          + ViaParents(S \ {g}, f, n)

\* the SyncFolder calls made for folder f
WalksOf(f) ==
  {q \in Walks : /\ FolderOf(q) = f
                 /\ w[q].pc \notin {"unitSave", "skipped"}
                 /\ ~(w[q].pc = "done" /\ w[q].ret = "none")}

\* the UpdateDataRetentionViaAPI calls made for record k of folder f
UpdateCalls(f, k) ==
  Cardinality({q \in WalksOf(f) : k \in DOMAIN w[q].leaf /\ w[q].leaf[k].calls = 1})

\* a run that has returned nil without a failed call
CleanRun ==
  /\ mpc = "done"
  /\ mret = "ok"
  /\ budget = MaxFaults
  /\ \A q \in Walks : w[q].ret = "ok" /\ w[q].de = "ok"

\* C34: once step 3 has submitted its units there is exactly one root walk
\* per folder of the root fetch, top-level or not; a walk that has fetched
\* its children has a unit for every listed child, walked elsewhere or not;
\* every walk processes its own leaf batch (its own job, one metrics
\* increment per record); so in a run without failures a folder is walked
\* once per occurrence in the remote answers, and each of its records gets
\* one update call per occurrence.
C34_WalkedOncePerOccurrence ==
  /\ (mpc = "walkPool" /\ wi > Len(world.entry)) \/ (mpc = "done" /\ Walks # {})
     => /\ RootWalks = {<<world.entry[i]>> : i \in DOMAIN world.entry}
        /\ \A r \in RootWalks : w[r].pc # "skipped"
  /\ \A p \in Walks :
       (w[p].kidsOk /\ w[p].pc \notin {"fetchSub", "subPool"})
       => \A i \in DOMAIN world.kids[FolderOf(p)] :
            /\ Append(p, world.kids[FolderOf(p)][i]) \in Walks
            /\ w[Append(p, world.kids[FolderOf(p)][i])].pc # "skipped"
  /\ \A q \in Walks :
       (w[q].pc = "done" /\ w[q].de = "ok")
       => /\ Len(w[q].leaf) = world.nde[FolderOf(q)]
          /\ w[q].job => q \in DOMAIN jobs /\ jobs[q].total = world.nde[FolderOf(q)]
  /\ metrics.ds + metrics.df = Cardinality(CountedLeaves)
  /\ CleanRun
     => \A f \in FolderIds :
          /\ Cardinality(WalksOf(f)) = Occurrences(f, Cardinality(FolderIds))
          /\ \A k \in 1..world.nde[f] :
               UpdateCalls(f, k) = Occurrences(f, Cardinality(FolderIds))

\* C34 witness: B is in the root fetch and in the child listing of A; its
\* child C, which has one record, was walked twice: two jobs, two metrics
\* increments and two update calls for the one stored record
C34_Witness ==
  /\ CleanRun
  /\ "B" \in Range(world.entry)
  /\ "B" \in Range(world.kids["A"])
  /\ Cardinality(WalksOf("B")) = 2
  /\ Cardinality(WalksOf("C")) = 2
  /\ \A q \in WalksOf("C") : q \in DOMAIN jobs
  /\ world.nde["C"] = 1
  /\ UpdateCalls("C", 1) = 2
  /\ metrics.ds = 2
  /\ deStore = {<<"C", 1>>}

(***************************************************************************)
(* A walk whose own SaveFolder fails (checked under Spec).                 *)
(***************************************************************************)

\* C35: the step in which the SaveFolder call at the start of a walk fails
\* adds one to FoldersFailed, changes no other counter, no row and no job,
\* and ends the walk with an error; such a walk has fetched no children, has
\* no child unit, has fetched no leaf records, has no leaf unit and no job;
\* a walk leaves its save position for the children fetch only with its
\* folder stored and counted, so a walk that processes leaf records has
\* saved its folder and has not returned an error.
C35_FailedSaveEndsWalk ==
  /\ [](\A p \in Walks :
          /\ w[p].ret = "err"
             => /\ w[p].pc = "done"
                /\ ~w[p].kidsOk
                /\ ChildWalks(p) = {}
                /\ w[p].de = "none"
                /\ w[p].n = 0
                /\ w[p].leaf = <<>>
                /\ ~w[p].job
                /\ p \notin DOMAIN jobs
          /\ (InDePhase(p) \/ w[p].leaf # <<>> \/ w[p].job)
             => /\ FolderOf(p) \in store
                /\ w[p].ret # "err"
                /\ w[p].pc \notin {"unitSave", "save", "fetchSub", "skipped"})
  /\ [][\A p \in Walks :
          (w[p].pc = "save" /\ w'[p].pc # "save")
          => \/ /\ w'[p].pc = "done"
                /\ w'[p].ret = "err"
                /\ metrics' = [metrics EXCEPT !.ff = @ + 1]
                /\ store' = store
                /\ deStore' = deStore
                /\ jobs' = jobs
                /\ DOMAIN w' = DOMAIN w
             \/ /\ w'[p].pc = "fetchSub"
                /\ w'[p].ret = "none"
                /\ FolderOf(p) \in store'
                /\ metrics' = [metrics EXCEPT !.fs = @ + 1]]_vars

\* C35 witness: the walk of a folder that has children and a record has
\* ended with an error, nothing of the folder having been fetched, while
\* the run has returned
C35_Witness ==
  \E p \in Walks :
    /\ w[p].ret = "err"
    /\ w[p].pc = "done"
    /\ world.kids[FolderOf(p)] # <<>>
    /\ world.nde[FolderOf(p)] > 0
    /\ metrics.ff = 1
    /\ deStore = {}
    /\ jobs = <<>>
    /\ mpc = "done"

(***************************************************************************)
(* A failed fetch of the leaf records: GetDataExtensions page by page, and *)
(* SyncDataExtensions and SyncFolder around it.  A behaviour is either a   *)
(* GetDataExtensions call or a run of SyncAll, in which the call is one    *)
(* step.                                                                   *)
(***************************************************************************)
InitFetch == InitPages \/ InitSync

NextFetch == NextPages \/ Next

SpecFetch == InitFetch /\ [][NextFetch]_vars

\* C36: a failed page fetch ends GetDataExtensions with an error and without
\* items, whatever pages were fetched before; the step in which
\* GetDataExtensions fails inside a walk changes no metrics counter, no row
\* and no job, and the walk ends with success, without a job, without leaf
\* units (no save, no update call) and with an error of SyncDataExtensions.
C36_FailedPageDiscardsBatch ==
  /\ [](pgErr => pgPc = "done" /\ pgItems = <<>>)
  /\ [][(pgErr' /\ ~pgErr)
        => /\ pgPc = "loop"
           /\ pgItems' = <<>>
           /\ pgCalls' = Append(pgCalls, pgPage)]_vars
  /\ [](\A p \in Walks :
          w[p].de = "err"
          => /\ w[p].pc = "done"
             /\ w[p].ret = "ok"
             /\ w[p].uret = "ok"
             /\ ~w[p].job
             /\ p \notin DOMAIN jobs
             /\ w[p].leaf = <<>>)
  /\ [][\A p \in Walks :
          (w[p].pc = "deFetch" /\ w'[p].pc # "deFetch" /\ w'[p].de # "ok")
          => /\ w'[p].de = "err"
             /\ w'[p].pc = "done"
             /\ metrics' = metrics
             /\ deStore' = deStore
             /\ jobs' = jobs
             /\ store' = store]_vars

\* C36 witness: the run has returned nil although the leaf records of a
\* folder that has one could not be fetched; nothing was stored or counted
\* for them
C36_Witness ==
  /\ mpc = "done"
  /\ mret = "ok"
  /\ \E p \in Walks :
       /\ w[p].de = "err"
       /\ world.nde[FolderOf(p)] > 0
       /\ w[p].ret = "ok"
       /\ \A k \in LeafIds : <<FolderOf(p), k>> \notin deStore
  /\ jobs = <<>>
  /\ metrics.ds = 0 /\ metrics.df = 0

\* a GetDataExtensions call has failed on a later page, after pages with
\* items had been fetched
FailedAfterFullPage ==
  /\ pgErr
  /\ pgPc = "done"
  /\ Len(pgCalls) > 1
  /\ pgItems = <<>>

(***************************************************************************)
(* Termination of SyncAll, also against a remote hierarchy whose child     *)
(* listings contain a cycle.  The recursion of SyncFolder is followed to   *)
(* MaxDepth nested calls.  A behaviour is a run of SyncAll or one call of  *)
(* GetDataExtensions.                                                      *)
(***************************************************************************)

\* a remote system in which A lists B as its child and B lists A
LoopWorld ==
  [entry |-> <<"A">>,
   parent |-> [f \in FolderIds |-> IF f = "A" THEN "0" ELSE "A"],
   kids |-> [f \in FolderIds |->
               IF f = "A" THEN <<"B">> ELSE IF f = "B" THEN <<"A">> ELSE <<>>],
   nde |-> [f \in FolderIds |-> 0]]

\* the folders listed within n levels below f
RECURSIVE ListedBelow(_, _)
ListedBelow(f, n) ==
  IF n = 0 THEN {}
  ELSE Range(world.kids[f])
       \cup UNION {ListedBelow(g, n - 1) : g \in Range(world.kids[f])}

\* some child listing contains an ancestor of the listed folder
CyclicListing == \E f \in FolderIds : f \in ListedBelow(f, Cardinality(FolderIds))

InitDeep ==
  \/ InitPages
  \/ \E wd \in Worlds \cup {LoopWorld} :
    /\ InitCache
    /\ ResolveIdle
    /\ store \in {{}, {ExternalId}}
    /\ budget = MaxFaults
    /\ world = wd
    /\ mpc = "fetch"
    /\ mret = "none"
    /\ fetched = "none"
    /\ ti = 1
    /\ topUnit = <<>>
    /\ topErr = FALSE
    /\ wi = 1
    /\ w = <<>>
    /\ jobs = <<>>
    /\ metrics = NoMetrics
    /\ deStore = {}
    /\ PoolIdle
    /\ MetIdle
    /\ PageIdle
    /\ InitRows
    /\ LogIdle
    /\ RetIdle
    /\ BatchIdle
    /\ UpsertIdle
    /\ HttpIdle
    /\ McnIdle
    /\ FullRowIdle

NextDeep ==
  \/ NextPages
  \/ Next /\ \A p \in DOMAIN w' : Len(p) <= MaxDepth

SpecDeep == InitDeep /\ [][NextDeep]_vars /\ WF_vars(NextDeep)

\* the folders of a walk path are pairwise different
NoRepeat(p) == \A i, j \in 1..Len(p) : p[i] = p[j] => i = j

\* C37: every GetDataExtensions call returns, the remote pages ending in a
\* short or empty page; when no child listing contains an ancestor of the
\* listed folder, every run of SyncAll (in which such a call is one step)
\* returns, and no walk path repeats a folder, so the
\* nesting of walks is bounded by the hierarchy; when a listing contains an
\* ancestor, a run in which no call fails never returns: nothing stops the
\* walk from walking the ancestor again.
C37_SyncAllTerminates ==
  /\ <>(pgPc \in {"idle", "done"})
  /\ <>(mpc = "idle" \/ CyclicListing \/ mret # "none")
  /\ [](~CyclicListing
         => \A p \in Walks : NoRepeat(p) /\ Len(p) <= Cardinality(FolderIds))
  /\ []((CyclicListing /\ budget = MaxFaults /\ fetched = "ok")
         => /\ mret = "none"
            /\ Walks # {} => \E p \in Walks : w[p].pc # "done")

\* C37 witness: against the chain A > B > C the run has returned nil after
\* walks nested three deep
C37_Witness ==
  /\ ~CyclicListing
  /\ mpc = "done"
  /\ mret = "ok"
  /\ \E p \in Walks : Len(p) = 3 /\ w[p].pc = "done" /\ w[p].ret = "ok"

\* against the cyclic listing a walk has been started for a folder whose
\* walk is still waiting further up the same path
WalksAncestorAgain ==
  /\ CyclicListing
  /\ \E p \in Walks :
       /\ Len(p) = MaxDepth
       /\ ~NoRepeat(p)
       /\ \E i \in 1..(Len(p) - 1) :
            /\ p[i] = p[Len(p)]
            /\ w[SubSeq(p, 1, i)].pc = "subPool"


(***************************************************************************)
(* FolderService.SaveFolder on the full row of table folders               *)
(***************************************************************************)
vRest == <<tokVars, resVars, syncVars, poolVars, metVars, dbVars, pageVars,
           logVars, retVars, batchVars, upsertVars, httpVars, mcnVars>>

\* vRest without the failure budget
vRestButBudget ==
  <<tokVars, store, rFolders, rParent, rMap, saved, attempt, ridx, allSaved,
    rpc, tried, savedPass, storeFail, syncVars, poolVars, metVars, dbVars,
    pageVars, logVars, retVars, batchVars, upsertVars, httpVars, mcnVars>>

\* no row of table folders
NoFolderRow == [id |-> ""]

\* pgtype.Text{String: s, Valid: valid}: an invalid value is stored as NULL
PgText(s, valid) == IF valid THEN s ELSE "NULL"

\* time.Time{}, for which IsZero() holds
ZeroTime == "0001-01-01"

\* pgtype.Timestamptz{Time: t, Valid: !t.IsZero()}
PgTimestamptz(t) == IF t # ZeroTime THEN t ELSE "NULL"

\* the folders SaveFolder is called with: every column takes an old and a new
\* value, the parent is empty, the sentinel, a stored folder or an unknown one
FolderArgs ==
  [id : {"A"}, type : {"t0", "t1"}, lastUpdated : {ZeroTime, "2024-01-01", "2024-06-01"},
   createdBy : {1, 2}, parentId : {"", "0", "B", "C", "X"},
   name : {"n0", "n1"}, description : {"", "d1"}, iconType : {"", "i1"}]

\* the rows table folders may hold for folder A before the call
StoredRows ==
  [id : {"A"}, type : {"t0"}, lastUpdated : {"2024-01-01"}, createdBy : {1},
   parentId : {"NULL", "B"}, name : {"n0"}, description : {"NULL"},
   iconType : {"NULL", "i1"}]

\* a stored row of another folder, which rows may reference as their parent
ParentRow(i) ==
  [id |-> i, type |-> "t0", lastUpdated |-> "2024-01-01", createdBy |-> 1,
   parentId |-> "NULL", name |-> "n0", description |-> "NULL",
   iconType |-> "NULL"]

\* the row gen.CreateFolderParams describes
CreateFolderParams(folder) ==
  [id |-> folder.id,
   type |-> folder.type,
   lastUpdated |-> PgTimestamptz(folder.lastUpdated),
   createdBy |-> folder.createdBy,
   parentId |-> PgText(folder.parentId,
                       folder.parentId # "" /\ folder.parentId # "0"),
   name |-> folder.name,
   description |-> PgText(folder.description, folder.description # ""),
   iconType |-> PgText(folder.iconType, folder.iconType # "")]

\* UpdateFolder that also moves the row under the remote parent
UpdateFolderSetsParent(r, folder) ==
  [r EXCEPT !.type = folder.type,
            !.lastUpdated = PgTimestamptz(folder.lastUpdated),
            !.parentId = PgText(folder.parentId,
                                folder.parentId # "" /\ folder.parentId # "0"),
            !.name = folder.name,
            !.description = PgText(folder.description, folder.description # ""),
            !.iconType = PgText(folder.iconType, folder.iconType # "")]

\* UPDATE folders SET type, last_updated, name, description, icon_type
\* WHERE id = $1, with the values of gen.UpdateFolderParams
UpdateFolder(r, folder) ==
  [r EXCEPT !.type = folder.type,
            !.lastUpdated = PgTimestamptz(folder.lastUpdated),
            !.name = folder.name,
            !.description = PgText(folder.description, folder.description # ""),
            !.iconType = PgText(folder.iconType, folder.iconType # "")]

\* the stored row of folder i, NoFolderRow if there is none
StoredRow(i) ==
  IF \E r \in vTable : r.id = i
  THEN CHOOSE r \in vTable : r.id = i
  ELSE NoFolderRow

InitFullRow ==
  /\ InitCache
  /\ ResolveIdle
  /\ store = {}
  /\ budget = MaxTwiceFaults
  /\ SyncIdle
  /\ PoolIdle
  /\ MetIdle
  /\ PageIdle
  /\ InitRows
  /\ LogIdle
  /\ RetIdle
  /\ BatchIdle
  /\ UpsertIdle
  /\ HttpIdle
  /\ McnIdle
  /\ \E old \in SUBSET StoredRows :
       /\ Cardinality(old) <= 1
       /\ vTable = {ParentRow("B"), ParentRow("C")} \cup old
  /\ vArg \in FolderArgs
  /\ vPc = "insert"
  /\ vRet = "none"
  /\ vBefore = StoredRow(vArg.id)

\* CreateFolder is refused: last_updated is NOT NULL, or the row is new and
\* its parent_id references no stored folder (fk_parent_folder); neither is
\* a unique violation, so SaveFolder returns the error
CreateFolderRefused ==
  /\ vPc = "insert"
  /\ LET params == CreateFolderParams(vArg)
     IN \/ params.lastUpdated = "NULL"
        \/ /\ StoredRow(params.id) = NoFolderRow
           /\ params.parentId # "NULL"
           /\ StoredRow(params.parentId) = NoFolderRow
  /\ vPc' = "done"
  /\ vRet' = "err"
  /\ UNCHANGED <<vTable, vArg, vBefore, vRest>>

\* CreateFolder fails for another reason (connection, context)
CreateFolderFail ==
  /\ vPc = "insert"
  /\ CanFail
  /\ budget' = Spend(budget)
  /\ vPc' = "done"
  /\ vRet' = "err"
  /\ UNCHANGED <<vTable, vArg, vBefore, vRestButBudget>>

\* CreateFolder inserts the row: SaveFolder returns nil
CreateFolderOk ==
  /\ vPc = "insert"
  /\ LET params == CreateFolderParams(vArg)
     IN /\ params.lastUpdated # "NULL"
        /\ StoredRow(params.id) = NoFolderRow
        /\ params.parentId # "NULL" => StoredRow(params.parentId) # NoFolderRow
        /\ vTable' = vTable \cup {params}
  /\ vPc' = "done"
  /\ vRet' = "nil"
  /\ UNCHANGED <<vArg, vBefore, vRest>>

\* CreateFolder meets the primary key: isUniqueConstraintViolation, the
\* update path is taken
CreateFolderExists ==
  /\ vPc = "insert"
  /\ CreateFolderParams(vArg).lastUpdated # "NULL"
  /\ StoredRow(vArg.id) # NoFolderRow
  /\ vPc' = "update"
  /\ UNCHANGED <<vTable, vArg, vRet, vBefore, vRest>>

\* UpdateFolder rewrites the stored row: SaveFolder returns nil
UpdateFolderOk ==
  /\ vPc = "update"
  /\ vTable' = (vTable \ {StoredRow(vArg.id)})
                 \cup {UpdateFolder(StoredRow(vArg.id), vArg)}
  /\ vPc' = "done"
  /\ vRet' = "nil"
  /\ UNCHANGED <<vArg, vBefore, vRest>>

\* UpdateFolder fails: SaveFolder returns the error
UpdateFolderFail ==
  /\ vPc = "update"
  /\ CanFail
  /\ budget' = Spend(budget)
  /\ vPc' = "done"
  /\ vRet' = "err"
  /\ UNCHANGED <<vTable, vArg, vBefore, vRestButBudget>>

NextFullRow ==
  \/ CreateFolderRefused
  \/ CreateFolderFail
  \/ CreateFolderOk
  \/ CreateFolderExists
  \/ UpdateFolderOk
  \/ UpdateFolderFail

SpecFullRow == InitFullRow /\ [][NextFullRow]_vars

\* SaveFolder returned nil after taking the update path
UpdatedOk == vPc = "done" /\ vRet = "nil" /\ vBefore # NoFolderRow

FullyCounted(j) ==
  /\ j.processed = j.total
  /\ j.succeeded + j.failed = j.processed

\* C39 as stated: every completed job has processed = total and succeeded +
\* failed = processed, and every created job is completed in the end, also
\* when the progress update or the completion call fails
C39_CompletedJobsAreFullyCounted ==
  /\ [](\A p \in DOMAIN jobs :
          jobs[p].status = JobStatusCompleted => FullyCounted(jobs[p]))
  /\ <>[](\A p \in DOMAIN jobs : jobs[p].status = JobStatusCompleted)

\* C39: every completed job has succeeded + failed = processed, with
\* processed = total when its progress update succeeded and all three counters
\* 0 when it failed; for every created job the progress update and then the
\* completion are called; a progress update that succeeds writes processed =
\* total, a completion that succeeds makes the job completed, and a job
\* whose completion call fails stays running
C39_JobsCountedWhenTrackingSucceeds ==
  /\ [](\A p \in DOMAIN jobs :
          /\ jobs[p].succeeded + jobs[p].failed = jobs[p].processed
          /\ jobs[p].processed \in {0, jobs[p].total}
          /\ jobs[p].status \in {JobStatusRunning, JobStatusCompleted}
          /\ w[p].pc \in {"jobComplete", "done"} \/ jobs[p].processed = 0
          /\ w[p].pc = "done" \/ jobs[p].status = JobStatusRunning)
  /\ [][\A p \in DOMAIN jobs :
          /\ (w[p].pc = "jobProgress" /\ w'[p].pc # "jobProgress"
              /\ budget' = budget)
             => FullyCounted(jobs'[p])
          /\ (w[p].pc = "jobComplete" /\ w'[p].pc # "jobComplete")
             => jobs'[p].status =
                  IF budget' = budget THEN JobStatusCompleted
                  ELSE JobStatusRunning]_vars
  /\ <>[](\A p \in DOMAIN jobs : w[p].pc = "done")

\* a completed job whose progress update failed, next to a job left running
\* by a failed completion call after its progress update was applied
C39_Witness ==
  \E p, q \in DOMAIN jobs :
    /\ jobs[p].status = JobStatusCompleted
    /\ jobs[p].processed = 0
    /\ jobs[p].total > 0
    /\ jobs[q].status = JobStatusRunning
    /\ jobs[q].processed = jobs[q].total
    /\ w[q].pc = "done"


(***************************************************************************)
(* The result of UpdateDataRetentionViaAPI and the retention row           *)
(***************************************************************************)
\* a step with which a call of UpdateDataRetentionViaAPI returns
UpdateReturns == xPc \in {"failed", "succeeded"} /\ xPc' = "idle"

\* rows r and q hold the same length, unit and row-based values
SameConfig(r, q) ==
  /\ r.length = q.length
  /\ r.unit = q.unit
  /\ r.rowBased = q.rowBased

\* the row records a successful push of the payload
RecordsSuccess(r) ==
  /\ r # NoRow
  /\ r.status = "succeeded"
  /\ r.retry = 0
  /\ SameConfig(r, Payload)

\* the row records a failed push and keeps the config values of row q
RecordsFailure(r, q) ==
  /\ r # NoRow
  /\ q # NoRow
  /\ r.status = "failed"
  /\ r.error.valid
  /\ r.error.len <= MaxErrorText
  /\ SameConfig(r, q)

\* C40 as stated: the call returns success exactly when the remote update
\* call succeeded; when it returns success the store holds a retention row
\* with status succeeded, retry counter 0 and the pushed values, and when it
\* returns an error the row has status failed, an error text of at most 1000
\* characters and its previous length, unit and row-based values, also for a
\* record saved without a RetentionConfig and when a status write fails
C40_ResultAgreesWithRow ==
  [][UpdateReturns
     => /\ xRet' = "nil" <=> xPc = "succeeded"
        /\ xRet' = "nil" => RecordsSuccess(drRow')
        /\ xRet' = "err" => RecordsFailure(drRow', drRow)]_vars

\* C40: the call returns success exactly when the remote update call
\* succeeded; when its last status write is applied the row has status
\* succeeded, retry counter 0 and the pushed length, unit and row-based values
\* after a success, and status failed, an error text of at most 1000
\* characters and its previous length, unit and row-based values after an
\* error; when that write is not applied (the record has no retention row, as
\* after a save without a RetentionConfig, or the store fails) the store keeps
\* what it held: no row, or the row as the earlier steps of the call left it;
\* the 'pending' write and the remote call change none of the three values
C40_ResultAgreesWithAppliedWrite ==
  [][/\ UpdateReturns
        => /\ xRet' = "nil" <=> xPc = "succeeded"
           /\ xRet' \in {"nil", "err"}
           /\ \/ lostWrite' /\ drRow' = drRow
              \/ /\ lostWrite' = lostWrite
                 /\ xRet' = "nil" => RecordsSuccess(drRow')
                 /\ xRet' = "err" => RecordsFailure(drRow', drRow)
           /\ drRow = NoRow => lostWrite' /\ drRow' = NoRow
     /\ (xPc = "idle" /\ xPc' = "api")
        => /\ drRow = NoRow <=> drRow' = NoRow
           /\ drRow # NoRow => SameConfig(drRow', drRow)
     /\ xPc = "api"
        => /\ drRow' = drRow
           /\ xPc' = "succeeded" <=> budget' = budget]_vars

\* a record saved without a RetentionConfig for which the call returned
\* success: its payload was sent and the store holds no retention row
C40_Witness ==
  /\ xPc = "idle"
  /\ xRet = "nil"
  /\ xCfg = NoConfig
  /\ deRow = "new"
  /\ drRow = NoRow
  /\ Len(sent) = 1
  /\ lostWrite
  /\ budget = MaxFaults

\* a call returned the API error with the 'failed' write applied: the row
\* holds a truncated error text and the config values it was saved with
FailureRecorded ==
  /\ xPc = "idle"
  /\ xRet = "err"
  /\ drRow # NoRow
  /\ drRow.status = "failed"
  /\ drRow.error = ErrorText(MaxErrorText + 1)
  /\ ~SameConfig(drRow, Payload)

====
